---- MODULE Spec2Model ----
(***************************************************************************)
(* Power BI Summarizer: the companion cloud API (cloud-api/app), the       *)
(* Browser connection registry (browser_integration.py), the client cloud  *)
(* session (cloud_session.py) and the plugin object (data_summarizer.py),  *)
(* as state machines.                                                      *)
(*                                                                         *)
(* Text is a tuple of one-character strings; a nullable column or an       *)
(* Optional value is the empty tuple (None) or a one-element tuple.        *)
(***************************************************************************)
EXTENDS Integers, Sequences, FiniteSets, TLC

VARIABLES
    users,        \* rows of table "users"
    layers,       \* rows of table "layers"
    files,        \* regular files on the server's disk (resolved paths)
    now,          \* server clock, seconds
    nextLayerId,  \* next value of the layers.id sequence
    nextUuid,     \* stands for uuid4(): each upload draws a fresh value
    inflight,     \* uploads suspended at an await, their file being written
    resp,         \* the last HTTP exchange: request and response
    saved,        \* IntegrationConnectionRegistry._saved
    runtime,      \* IntegrationConnectionRegistry._runtime (insertion ordered)
    children,     \* children of the PowerBIRootItem shown in the Browser
    session,      \* PowerBICloudSession._session
    persisted,    \* QSettings value under SESSION_KEY
    config,       \* PowerBICloudSession._config
    connections,  \* PowerBICloudSession._connections (the layer catalog)
    isReloading,  \* PowerBICloudSession._is_reloading
    emitted,      \* signals emitted during the last call on the session
    credentials,  \* credentials kept by the QGIS authentication manager
    lastCall,     \* the last call made on the session and how it ended
    actions,      \* PowerBISummarizer.actions
    menu,         \* actions in the QGIS plugin menu
    toolbar,      \* actions in the QGIS plugins toolbar
    providers,    \* providers in QGIS' data item provider registry
    _browser_provider,  \* PowerBISummarizer._browser_provider
    dlg,          \* PowerBISummarizer.dlg and what the dialog shows
    registryAvailable,  \* _provider_registry() finds a registry in this QGIS
    inits,        \* initGui calls so far (the objects they make are numbered)
    pluginCall,   \* the last method of the plugin object that returned
    _base_df,         \* PowerQueryTable._base_df
    _transformed_df,  \* PowerQueryTable._transformed_df
    _filtered_df,     \* PowerQueryTable._filtered_df, what dataframe() returns
    _active_filters,  \* PowerQueryTable._active_filters
    _df,              \* PowerQueryModel._df, the rows the view shows, in order
    raw_df,                 \* PivotTableWidget.raw_df
    row_field_combo,        \* currentData() of the combo 'Linhas'
    value_field_combo,      \* currentData() of the combo 'Valores'
    agg_combo,              \* currentData() of the combo 'Operacao'
    pivot_df,               \* PivotTableWidget.pivot_df
    table_model,            \* the headers and items of table_model
    search_input,           \* the text in the search box
    column_filter_editors,  \* the texts in the filter boxes, one per header
    _global_regexp,         \* _PivotFilterProxy._global_regexp
    _column_filters,        \* _PivotFilterProxy._column_filters
    proxy_rows              \* the source rows the proxy maps, the rows shown

apiVars == <<users, layers, files, now, nextLayerId, nextUuid, inflight, resp>>
browserVars == <<saved, runtime, children>>
sessionVars == <<session, persisted, config, connections, isReloading,
                 emitted, credentials, lastCall>>
pluginVars == <<actions, menu, toolbar, providers, _browser_provider, dlg,
                registryAvailable, inits, pluginCall>>
queryVars == <<_base_df, _transformed_df, _filtered_df, _active_filters, _df>>
pivotVars == <<raw_df, row_field_combo, value_field_combo, agg_combo, pivot_df,
               table_model, search_input, column_filter_editors, _global_regexp,
               _column_filters, proxy_rows>>
vars == <<apiVars, browserVars, sessionVars, pluginVars, queryVars, pivotVars>>

(***************************************************************************)
(* Bounds of the model.                                                    *)
(***************************************************************************)
MaxTicks == 2          \* the clock stops after this many ticks
MaxUploads == 2        \* uploads that reach the disk
MaxTokenId == 3        \* bearer tokens name the user ids 1, 2 and MaxTokenId
MaxUriLen == 2         \* segments of the uri of a layer row found in the table
TickSeconds == 3600    \* one tick of the clock
MaxInits == 4          \* calls of initGui
MaxColumns == 2        \* columns of the Power Query table

None == <<>>
Some(x) == <<x>>
IsNone(o) == o = <<>>
Val(o) == o[1]

Times == {k * TickSeconds : k \in 0..MaxTicks}

(***************************************************************************)
(* Text helpers: str.lower, str.strip, ordering of names.                  *)
(***************************************************************************)
IsSpace(c) == c = " "

LowerChar(c) ==
    CASE c = "A" -> "a"
      [] c = "B" -> "b"
      [] c = "G" -> "g"
      [] c = "K" -> "k"
      [] c = "P" -> "p"
      [] OTHER -> c

Lower(s) == [i \in 1..Len(s) |-> LowerChar(s[i])]

RECURSIVE LStrip(_)
LStrip(s) == IF s # <<>> /\ IsSpace(Head(s)) THEN LStrip(Tail(s)) ELSE s

RECURSIVE RStrip(_)
RStrip(s) ==
    IF s # <<>> /\ IsSpace(s[Len(s)]) THEN RStrip(SubSeq(s, 1, Len(s) - 1)) ELSE s

Strip(s) == RStrip(LStrip(s))

EndsWith(s, suffix) ==
    /\ Len(s) >= Len(suffix)
    /\ SubSeq(s, Len(s) - Len(suffix) + 1, Len(s)) = suffix

\* Code point order of the characters the model uses (ORDER BY name ASC).
CharRank(c) ==
    CASE c = " " -> 0
      [] c = "." -> 1
      [] c = "@" -> 2
      [] c = "A" -> 3
      [] c = "B" -> 4
      [] c = "_" -> 5
      [] c = "a" -> 6
      [] c = "b" -> 7
      [] OTHER -> 8

RECURSIVE TextLess(_, _)
TextLess(s, t) ==
    IF t = <<>> THEN FALSE
    ELSE IF s = <<>> THEN TRUE
    ELSE IF CharRank(Head(s)) # CharRank(Head(t))
         THEN CharRank(Head(s)) < CharRank(Head(t))
         ELSE TextLess(Tail(s), Tail(t))

TextLeq(s, t) == s = t \/ TextLess(s, t)

(***************************************************************************)
(* schemas.py: e-mail format of LoginRequest.                              *)
(***************************************************************************)
NoAtNoSpace(s) == \A i \in 1..Len(s) : s[i] # "@" /\ ~IsSpace(s[i])

\* _EMAIL_REGEX = ^[^@\s]+@[^@\s]+\.[^@\s]+$
EmailRegexMatch(s) ==
    \E i \in 2..Len(s) - 3 :
        /\ s[i] = "@"
        /\ NoAtNoSpace(SubSeq(s, 1, i - 1))
        /\ NoAtNoSpace(SubSeq(s, i + 1, Len(s)))
        /\ \E j \in i + 2..Len(s) - 1 : s[j] = "."

_validate_email(value) == EmailRegexMatch(value)

(***************************************************************************)
(* auth.py: passwords and tokens.                                          *)
(***************************************************************************)
JWT_SECRET == "change-me"
JWT_EXPIRES == 3600

\* bcrypt: the digest depends on the salt kept inside the hash.
Digest(salt, password) == <<salt, password>>

hash_password(password, salt) ==
    [scheme |-> "bcrypt", salt |-> salt, digest |-> Digest(salt, password)]

verify_password_ignoring(plain_password, password_hash) == TRUE

verify_password(plain_password, password_hash) ==
    Digest(password_hash.salt, plain_password) = password_hash.digest

\* str(user.id) and int(subject)
Str(n) == <<"str", n>>
ParseInt(s) == s[2]

\* HS256: the signature binds the payload to the key.
Sign(payload, key) == <<key, payload>>

jwt_encode(payload, key) == [payload |-> payload, sig |-> Sign(payload, key)]

jwt_decode_unchecked_exp(token, key, t) ==
    IF token.sig # Sign(token.payload, key)
    THEN [ok |-> FALSE, payload |-> token.payload]
    ELSE [ok |-> TRUE, payload |-> token.payload]

\* jose raises JWTError for a bad signature and, with "exp" present, when
\* exp < now.
jwt_decode(token, key, t) ==
    IF token.sig # Sign(token.payload, key)
    THEN [ok |-> FALSE, payload |-> token.payload]
    ELSE IF ~IsNone(token.payload.exp) /\ Val(token.payload.exp) < t
         THEN [ok |-> FALSE, payload |-> token.payload]
         ELSE [ok |-> TRUE, payload |-> token.payload]

create_access_token(subject, t) ==
    jwt_encode([sub |-> Some(subject), exp |-> Some(t + JWT_EXPIRES)], JWT_SECRET)

UserByEmail(us, email) == {u \in us : u.email = email}
UserById(us, id) == {u \in us : u.id = id}

\* db.query(User).filter(User.email == email).first(), then the hash check.
\* The result is the set holding the user, or the empty set for None.
authenticate_user(us, email, password) ==
    {u \in UserByEmail(us, email) : verify_password(password, u.password_hash)}

\* The user a bearer token stands for, or the empty set when the handler
\* raises credentials_exception (401).
get_current_user(us, token, t) ==
    LET d == jwt_decode(token, JWT_SECRET, t) IN
    IF ~d.ok THEN {}
    ELSE IF IsNone(d.payload.sub) THEN {}
    ELSE UserById(us, ParseInt(Val(d.payload.sub)))

\* models.User.is_admin
LowerRole(role) == IF role = "ADMIN" \/ role = "Admin" THEN "admin" ELSE role

is_admin_anyone(user) == TRUE

is_admin(user) == LowerRole(user.role) = "admin"

(***************************************************************************)
(* config.py and pathlib: paths are an absolute flag and their segments.   *)
(***************************************************************************)
Path(isAbs, segs) == [abs |-> isAbs, segs |-> segs]

UPLOAD_DIR == Path(TRUE, << <<"data">>, <<"gpkg">> >>)

\* a / b: an absolute right operand replaces the left one.
PathJoin(a, b) == IF b.abs THEN b ELSE Path(a.abs, a.segs \o b.segs)

RECURSIVE Normalize(_, _)
Normalize(done, rest) ==
    IF rest = <<>> THEN done
    ELSE IF Head(rest) = <<".">> THEN Normalize(done, Tail(rest))
    ELSE IF Head(rest) = <<"..">>
         THEN Normalize(IF done = <<>> THEN done
                        ELSE SubSeq(done, 1, Len(done) - 1), Tail(rest))
         ELSE Normalize(Append(done, Head(rest)), Tail(rest))

\* The file system's own reading of a path (the working directory is "/",
\* there are no symbolic links): the file an open() of the path reaches.
OsResolve(p) == Path(TRUE, Normalize(<<>>, p.segs))

PathResolveLexical(p) == Path(TRUE, p.segs)

\* Path.resolve()
PathResolve(p) == Path(TRUE, Normalize(<<>>, p.segs))

\* Path.relative_to(base) raises ValueError unless base is a prefix.
IsRelativeTo(p, base) ==
    /\ Len(p.segs) >= Len(base.segs)
    /\ SubSeq(p.segs, 1, Len(base.segs)) = base.segs

\* Path.exists() and Path.is_file()
IsFile(fs, p) == OsResolve(p).segs \in fs

(***************************************************************************)
(* Rows, seeds (db_init.py) and the values requests are drawn from.        *)
(***************************************************************************)
ADMIN_EMAIL == <<"a", "@", "d", ".", "v">>    \* stands for admin@demo.dev
ADMIN_PASSWORD == "demo123"
USER_EMAIL == <<"u", "@", "d", ".", "v">>
NEW_EMAIL == <<"n", "@", "d", ".", "v">>

Emails == {ADMIN_EMAIL, USER_EMAIL, NEW_EMAIL,
           <<"a", "@", "d">>, <<"a", " ", "@", "d", ".", "v">>}
Passwords == {ADMIN_PASSWORD, "pw"}
Salts == {"s1", "s2"}

AdminUser ==
    [id |-> 1, email |-> ADMIN_EMAIL,
     password_hash |-> hash_password(ADMIN_PASSWORD, "s1"), role |-> "admin"]

RegularUser ==
    [id |-> 2, email |-> USER_EMAIL,
     password_hash |-> hash_password("pw", "s2"), role |-> "user"]

LayerRow(id, name, provider, uri, schema, srid, geom_type, creator) ==
    [id |-> id, name |-> name, provider |-> provider, uri |-> uri,
     schema |-> schema, srid |-> srid, epsg |-> srid, geom_type |-> geom_type,
     created_by_user_id |-> creator]

\* LAYER_SEEDS: redes_esgoto, pocos_bombeamento, bairros (names shortened).
LAYER_SEEDS ==
    { LayerRow(1, <<"b", "b">>, "postgis", None, Some("public"), Some(31984),
               Some("LINESTRING"), Some(1)),
      LayerRow(2, <<"a", "b">>, "postgis", None, Some("public"), Some(31984),
               Some("POINT"), Some(1)),
      LayerRow(3, <<"a", "a">>, "postgis", None, Some("public"), Some(31984),
               Some("MULTIPOLYGON"), Some(1)) }

\* Column defaults fire at INSERT for attributes that are None
\* (models.Layer: provider "postgis", schema "public").
InsertDefaults(row) ==
    [row EXCEPT !.schema = IF IsNone(@) THEN Some("public") ELSE @]

\* Tokens create_access_token can have signed up to time t ...
\* (the oldest and the newest of them, for the stored users' ids and for
\* MaxTokenId, the id of no stored user)
MintedTokens(t) ==
    {create_access_token(Str(id), t0) : id \in {1, 2, MaxTokenId}, t0 \in {0, t}}

\* ... and tokens made without the secret: signed with another key, or a
\* payload put under the signature of a minted token.
ForgedPayload == [sub |-> Some(Str(1)), exp |-> Some(JWT_EXPIRES * 24)]

ForgedTokens ==
    { [payload |-> ForgedPayload, sig |-> Sign(ForgedPayload, "guess")],
      [payload |-> ForgedPayload, sig |-> create_access_token(Str(2), 0).sig] }

Tokens(t) == MintedTokens(t) \cup ForgedTokens

NoBody == [kind |-> "none"]

Response(ep, req, status, detail, body) ==
    [ep |-> ep, req |-> req, status |-> status, detail |-> detail, body |-> body]

CREDENTIALS_DETAIL == "Could not validate credentials"

(***************************************************************************)
(* main.py: /login, /me, /layers.                                          *)
(***************************************************************************)
Tick ==
    /\ now < MaxTicks * TickSeconds
    /\ now' = now + TickSeconds
    /\ UNCHANGED <<users, layers, files, nextLayerId, nextUuid, inflight, resp, browserVars, sessionVars, pluginVars, queryVars, pivotVars>>

\* The response of POST /login (LoginRequest validation, then the handler).
login(us, email, password, t) ==
    LET req == [email |-> email, password |-> password]
        found == authenticate_user(us, email, password) IN
    IF ~_validate_email(email)
    THEN Response("login", req, 422, "Invalid email format", NoBody)
    ELSE IF found = {}
    THEN Response("login", req, 401, "Invalid email or password", NoBody)
    ELSE LET user == CHOOSE u \in found : TRUE IN
         Response("login", req, 200, "",
                  [kind |-> "token",
                   access_token |-> create_access_token(Str(user.id), t),
                   token_type |-> "bearer",
                   expires_in |-> JWT_EXPIRES])

Login ==
    \E email \in Emails, password \in Passwords :
        /\ resp' = login(users, email, password, now)
        /\ UNCHANGED <<users, layers, files, now, nextLayerId, nextUuid, inflight, browserVars, sessionVars, pluginVars, queryVars, pivotVars>>

get_me(us, token, t) ==
    LET req == [token |-> token]
        current == get_current_user(us, token, t) IN
    IF current = {}
    THEN Response("me", req, 401, CREDENTIALS_DETAIL, NoBody)
    ELSE Response("me", req, 200, "",
                  [kind |-> "user", user |-> CHOOSE u \in current : TRUE])

GetMe(tokens) ==
    \E token \in tokens :
        /\ resp' = get_me(users, token, now)
        /\ UNCHANGED <<users, layers, files, now, nextLayerId, nextUuid, inflight, browserVars, sessionVars, pluginVars, queryVars, pivotVars>>

\* ORDER BY name ASC (rows of equal name in id order).
RowBefore(a, b) == TextLess(a.name, b.name) \/ (a.name = b.name /\ a.id < b.id)

RECURSIVE OrderByName(_)
OrderByName(rows) ==
    IF rows = {} THEN <<>>
    ELSE LET first == CHOOSE r \in rows : \A o \in rows \ {r} : RowBefore(r, o)
         IN <<first>> \o OrderByName(rows \ {first})

\* schemas.LayerOut: id int, name str, schema str, srid int, geom_type str.
ConformsToLayerOut(row) ==
    ~IsNone(row.schema) /\ ~IsNone(row.srid) /\ ~IsNone(row.geom_type)

LayerOut(row) ==
    [id |-> row.id, name |-> row.name, schema |-> row.schema,
     srid |-> row.srid, geom_type |-> row.geom_type]

list_layers(us, ls, token, t) ==
    LET req == [token |-> token]
        current == get_current_user(us, token, t)
        rows == OrderByName(ls) IN
    IF current = {}
    THEN Response("layers", req, 401, CREDENTIALS_DETAIL, NoBody)
    ELSE IF \E i \in 1..Len(rows) : ~ConformsToLayerOut(rows[i])
    THEN Response("layers", req, 500, "Internal Server Error", NoBody)
    ELSE Response("layers", req, 200, "",
                  [kind |-> "layers",
                   items |-> [i \in 1..Len(rows) |-> LayerOut(rows[i])]])

ListLayers(tokens) ==
    \E token \in tokens :
        /\ resp' = list_layers(users, layers, token, now)
        /\ UNCHANGED <<users, layers, files, now, nextLayerId, nextUuid, inflight, browserVars, sessionVars, pluginVars, queryVars, pivotVars>>

(***************************************************************************)
(* admin.py: /admin/create-user.                                           *)
(***************************************************************************)
\* The names auth.py defines. admin.py (line 14) imports get_current_user and
\* get_password_hash from it; the second is not among them. Python raises
\* ImportError when app.admin is first imported; the model charges the
\* failure to create_user, the one handler that uses the name, so that the
\* other handlers can be checked as written.
AuthModuleNames ==
    {"hash_password", "verify_password", "create_access_token",
     "authenticate_user", "get_current_user"}

NameResolves(name) == name \in AuthModuleNames

NextUserId(us) ==
    IF us = {} THEN 1
    ELSE (CHOOSE m \in {u.id : u \in us} : \A u \in us : u.id <= m) + 1

\* The response of POST /admin/create-user and the users table after it.
create_user(us, token, email, password, salt, t) ==
    LET req == [token |-> token, email |-> email, password |-> password]
        current == get_current_user(us, token, t) IN
    IF current = {}
    THEN [resp |-> Response("create-user", req, 401, CREDENTIALS_DETAIL, NoBody),
          users |-> us]
    ELSE IF ~is_admin(CHOOSE u \in current : TRUE)
    THEN [resp |-> Response("create-user", req, 403,
                            "Apenas admins podem criar usuarios.", NoBody),
          users |-> us]
    ELSE IF UserByEmail(us, email) # {}
    THEN [resp |-> Response("create-user", req, 400, "E-mail ja cadastrado", NoBody),
          users |-> us]
    ELSE IF ~NameResolves("get_password_hash")
    THEN [resp |-> Response("create-user", req, 500, "Internal Server Error", NoBody),
          users |-> us]
    ELSE LET user == [id |-> NextUserId(us), email |-> email,
                      password_hash |-> hash_password(password, salt),
                      role |-> "user"] IN
         [resp |-> Response("create-user", req, 201, "",
                            [kind |-> "user", user |-> user]),
          users |-> us \cup {user}]

CreateUser(tokens) ==
    \E token \in tokens, email \in {USER_EMAIL, NEW_EMAIL},
       password \in {"pw"}, salt \in Salts :
        LET r == create_user(users, token, email, password, salt, now) IN
        /\ resp' = r.resp
        /\ users' = r.users
        /\ UNCHANGED <<layers, files, now, nextLayerId, nextUuid, inflight, browserVars, sessionVars, pluginVars, queryVars, pivotVars>>

(***************************************************************************)
(* admin.py: /admin/upload-layer-gpkg.                                     *)
(***************************************************************************)
IsValidFilenameChar(c) == c \in {"a", "b", "A", "B", "_", ".", "-"}

\* _INVALID_FILENAME_CHARS.sub("_", name): each run of other characters
\* becomes one underscore.
RECURSIVE SubInvalid(_, _)
SubInvalid(s, inRun) ==
    IF s = <<>> THEN <<>>
    ELSE IF IsValidFilenameChar(Head(s))
         THEN <<Head(s)>> \o SubInvalid(Tail(s), FALSE)
         ELSE (IF inRun THEN <<>> ELSE <<"_">>) \o SubInvalid(Tail(s), TRUE)

RECURSIVE StripDotUnderscore(_)
StripDotUnderscore(s) ==
    IF s # <<>> /\ Head(s) \in {".", "_"} THEN StripDotUnderscore(Tail(s))
    ELSE IF s # <<>> /\ s[Len(s)] \in {".", "_"}
         THEN StripDotUnderscore(SubSeq(s, 1, Len(s) - 1))
         ELSE s

_sanitize_filename(name) ==
    LET sanitized == StripDotUnderscore(SubInvalid(name, FALSE)) IN
    IF sanitized = <<>> THEN <<"l", "a", "y", "e", "r">> ELSE sanitized

_require_admin(current_user) == is_admin(current_user)

UpperWord(w) ==
    CASE w = "epsg" -> "EPSG"
      [] w = "point" -> "POINT"
      [] OTHER -> w

\* What sqlite3 finds in an uploaded file: whether the query of
\* gpkg_geometry_columns runs, and its rows (geometry column, geometry type
\* name, organization, organization_coordsys_id, srs_id).
GeomRow(column, gtype, org, orgSrid, srsId) ==
    [column |-> column, gtype |-> gtype, org |-> org, org_srid |-> orgSrid,
     srs_id |-> srsId]

GpkgEpsg == [readable |-> TRUE,
             rows |-> <<GeomRow(Some("geom"), Some("point"), Some("epsg"),
                                Some(4326), Some(4326))>>]
GpkgUndefinedSrs == [readable |-> TRUE,
                     rows |-> <<GeomRow(Some("geom"), Some("POINT"), Some("NONE"),
                                        Some(0), Some(0))>>]
GpkgNoSrs == [readable |-> TRUE,
              rows |-> <<GeomRow(Some("geom"), Some("POINT"), None, None, None)>>]
GpkgNoGeometry == [readable |-> TRUE, rows |-> <<>>]
GpkgNoType == [readable |-> TRUE,
               rows |-> <<GeomRow(Some("geom"), None, Some("EPSG"),
                                  Some(4326), Some(4326))>>]
GpkgUnreadable == [readable |-> FALSE, rows |-> <<>>]

\* The metadata, or the detail of the HTTPException (400) raised.
_extract_gpkg_metadata(content) ==
    IF ~content.readable
    THEN [ok |-> FALSE, detail |-> "Nao foi possivel ler os metadados do GPKG."]
    ELSE IF content.rows = <<>>
    THEN [ok |-> FALSE, detail |-> "O arquivo GPKG nao possui colunas de geometria."]
    ELSE LET row == content.rows[1]
             srid == IF /\ ~IsNone(row.org)
                        /\ UpperWord(Val(row.org)) = "EPSG"
                        /\ ~IsNone(row.org_srid)
                     THEN row.org_srid
                     ELSE IF ~IsNone(row.srs_id) THEN row.srs_id ELSE None
             geom_type_name == IF IsNone(row.gtype) THEN ""
                               ELSE UpperWord(Val(row.gtype)) IN
         IF geom_type_name = "" \/ IsNone(row.column)
         THEN [ok |-> FALSE,
               detail |-> "Nao foi possivel identificar o tipo de geometria do arquivo GPKG."]
         ELSE [ok |-> TRUE, detail |-> "", geometry_type |-> geom_type_name,
               srid |-> srid]

\* Python's "a or b" on Optional[int]: None and 0 are falsy.
OrElse(a, b) == IF IsNone(a) \/ a = Some(0) THEN b ELSE a

DatedPath(t) ==
    IF t < 86400 THEN << <<"1970">>, <<"01">>, <<"01">> >>
    ELSE << <<"1970">>, <<"01">>, <<"02">> >>

\* relative_prefix: "gpkg" unless UPLOAD_DIR already ends with it.
RelativePrefix ==
    LET base == PathResolve(UPLOAD_DIR).segs IN
    IF base # <<>> /\ base[Len(base)] = <<"gpkg">> THEN <<>> ELSE << <<"gpkg">> >>

GeneratedFilename(uuid, safe_stem) == <<"file", uuid, safe_stem, ".gpkg">>

SameLayerKey_unchecked(row, name, provider, creator) == FALSE

SameLayerKey(row, name, provider, creator) ==
    row.name = name /\ row.provider = provider /\ row.created_by_user_id = creator

\* The multipart forms uploads are drawn from: file name (stem, extension),
\* name, epsg and what the file holds.
UploadForm(stem, ext, name, epsg, content) ==
    [stem |-> stem, ext |-> ext, name |-> name, epsg |-> epsg, content |-> content]

GPKG_EXT == <<".", "G", "P", "K", "G">>

FormGood == UploadForm(<<"a">>, GPKG_EXT, Some(<<"b", " ">>), None, GpkgEpsg)
FormZip == UploadForm(<<"a">>, <<".", "z", "i", "p">>, None, None, GpkgEpsg)

UploadForms ==
    { FormGood, FormZip,
      UploadForm(<<" ", ".">>, GPKG_EXT, None, Some(4326), GpkgEpsg),
      UploadForm(<<"a">>, GPKG_EXT, None, Some(31984), GpkgEpsg),
      UploadForm(<<"a">>, GPKG_EXT, None, None, GpkgUndefinedSrs),
      UploadForm(<<"a">>, GPKG_EXT, None, None, GpkgNoSrs),
      UploadForm(<<"a">>, GPKG_EXT, Some(<<" ">>), Some(4326), GpkgNoSrs),
      UploadForm(<<"a">>, GPKG_EXT, None, None, GpkgNoGeometry),
      UploadForm(<<"a">>, GPKG_EXT, None, None, GpkgNoType),
      UploadForm(<<"a">>, GPKG_EXT, None, None, GpkgUnreadable) }

\* The handler up to its first await: the checks, and the target file opened
\* for writing. ok: the upload goes on; otherwise resp is the rejection.
upload_begin(us, ls, token, form, uuid, t) ==
    LET current == get_current_user(us, token, t)
        ext == form.ext
        name == form.name
        safe_stem == _sanitize_filename(form.stem)
        safe_display_name ==
            IF ~IsNone(name) /\ Strip(Val(name)) # <<>> THEN Strip(Val(name))
            ELSE safe_stem
        req == [token |-> token, form |-> form]
        relative_uri == Path(FALSE, RelativePrefix \o DatedPath(t)
                                    \o <<GeneratedFilename(uuid, safe_stem)>>)
        target_path == PathJoin(PathResolve(UPLOAD_DIR), relative_uri) IN
    IF current = {}
    THEN [ok |-> FALSE,
          resp |-> Response("upload", req, 401, CREDENTIALS_DETAIL, NoBody)]
    ELSE IF ~_require_admin(CHOOSE u \in current : TRUE)
    THEN [ok |-> FALSE,
          resp |-> Response("upload", req, 403,
                            "Apenas admins podem executar esta acao.", NoBody)]
    ELSE IF ~EndsWith(Lower(ext), <<".", "g", "p", "k", "g">>)
    THEN [ok |-> FALSE,
          resp |-> Response("upload", req, 400,
                            "Envie um arquivo com extensao .gpkg", NoBody)]
    ELSE IF \E row \in ls :
                SameLayerKey(row, safe_display_name, "gpkg",
                             Some((CHOOSE u \in current : TRUE).id))
    THEN [ok |-> FALSE,
          resp |-> Response("upload", req, 400,
                            "Ja existe uma camada com este nome para este usuario.",
                            NoBody)]
    ELSE [ok |-> TRUE,
          call |-> [token |-> token, form |-> form, name |-> safe_display_name,
                    user_id |-> (CHOOSE u \in current : TRUE).id,
                    uri |-> relative_uri, target |-> target_path.segs]]

UploadBegin(tokens, forms) ==
    \E token \in tokens, form \in forms :
        LET r == upload_begin(users, layers, token, form, nextUuid, now) IN
        /\ nextUuid <= MaxUploads
        /\ IF r.ok
           THEN /\ inflight' = inflight \cup {r.call}
                /\ files' = files \cup {r.call.target}
                /\ nextUuid' = nextUuid + 1
                /\ UNCHANGED resp
           ELSE /\ resp' = r.resp
                /\ UNCHANGED <<inflight, files, nextUuid>>
        /\ UNCHANGED <<users, layers, now, nextLayerId, browserVars, sessionVars, pluginVars, queryVars, pivotVars>>

\* The rest of the handler, from the written file to the response.
upload_finish(ls, fs, call, layerId) ==
    LET req == [token |-> call.token, form |-> call.form, user_id |-> call.user_id,
                name |-> call.name, target |-> call.target]
        epsg == call.form.epsg
        metadata == _extract_gpkg_metadata(call.form.content)
        rejected(status, detail) ==
            \* db.rollback(); _cleanup_file(target_path)
            [resp |-> Response("upload", req, status, detail, NoBody),
             layers |-> ls, files |-> fs \ {call.target}, inserted |-> FALSE] IN
    IF ~metadata.ok THEN rejected(400, metadata.detail)
    ELSE IF IsNone(metadata.srid) /\ IsNone(epsg)
    THEN rejected(400, "Nao foi possivel determinar o SRID do arquivo GPKG. Informe um EPSG valido.")
    ELSE IF ~IsNone(metadata.srid) /\ ~IsNone(epsg) /\ metadata.srid # epsg
    THEN rejected(400, "O EPSG informado nao corresponde ao SRID do arquivo GPKG.")
    ELSE LET final_srid == OrElse(metadata.srid, epsg)
             layer == InsertDefaults(
                          LayerRow(layerId, call.name, "gpkg", Some(call.uri), None,
                                   final_srid, Some(metadata.geometry_type),
                                   Some(call.user_id))) IN
         IF \E row \in ls : SameLayerKey(row, layer.name, layer.provider,
                                         layer.created_by_user_id)
         THEN \* IntegrityError on uq_layers_name_provider_user
              rejected(400, "Ja existe uma camada com este nome.")
         ELSE [resp |-> IF ConformsToLayerOut(layer)
                        THEN Response("upload", req, 201, "",
                                      [kind |-> "layer", layer |-> LayerOut(layer)])
                        ELSE Response("upload", req, 500, "Internal Server Error",
                                      NoBody),
               layers |-> ls \cup {layer}, files |-> fs, inserted |-> TRUE]

UploadFinish ==
    \E call \in inflight :
        LET r == upload_finish(layers, files, call, nextLayerId) IN
        /\ resp' = r.resp
        /\ layers' = r.layers
        /\ files' = r.files
        /\ nextLayerId' = IF r.inserted THEN nextLayerId + 1 ELSE nextLayerId
        /\ inflight' = inflight \ {call}
        /\ UNCHANGED <<users, now, nextUuid, browserVars, sessionVars, pluginVars, queryVars, pivotVars>>

(***************************************************************************)
(* main.py: /layers/{layer_id}/download-gpkg.                              *)
(***************************************************************************)
LowerScheme(scheme) == IF scheme = "Bearer" \/ scheme = "BEARER" THEN "bearer" ELSE scheme

\* An Authorization header is its scheme and what follows the first space
\* (None when nothing does); the query parameter is an Optional token.
HeaderCredentials(t) ==
    {None, Some(create_access_token(Str(2), t)),
     Some([payload |-> ForgedPayload, sig |-> Sign(ForgedPayload, "guess")])}

Headers(t) ==
    {None} \cup {Some([scheme |-> sc, credentials |-> c]) :
                    sc \in {"Bearer", "bearer", "Basic"}, c \in HeaderCredentials(t)}

\* No token, a fresh one, the oldest one, one of a user id that is not in the
\* table, a forged one.
QueryTokens(t) ==
    {None, Some(create_access_token(Str(2), t)), Some(create_access_token(Str(2), 0)),
     Some(create_access_token(Str(MaxTokenId), t)),
     Some([payload |-> ForgedPayload, sig |-> Sign(ForgedPayload, "guess")])}

\* The token the request is judged by (None when it carries none).
RequestToken(header, token_query) ==
    IF ~IsNone(header) /\ LowerScheme(Val(header).scheme) = "bearer"
    THEN Val(header).credentials
    ELSE token_query

_resolve_user_from_request(us, header, token_query, t) ==
    LET token_value == RequestToken(header, token_query) IN
    IF IsNone(token_value) THEN {}
    ELSE LET d == jwt_decode(Val(token_value), JWT_SECRET, t) IN
         IF ~d.ok THEN {}
         ELSE IF IsNone(d.payload.sub) THEN {}
         ELSE UserById(us, ParseInt(Val(d.payload.sub)))

download_without_auth(us, header, token_query, t) == FALSE

\* TRUE when the handler raises credentials_exception before its body.
download_rejects(us, header, token_query, t) ==
    _resolve_user_from_request(us, header, token_query, t) = {}

download_layer_gpkg(us, ls, fs, layer_id, header, token_query, t) ==
    LET req == [layer_id |-> layer_id, header |-> header, token |-> token_query]
        found == {row \in ls : row.id = layer_id}
        layer == CHOOSE row \in found : TRUE
        base_dir == PathResolve(UPLOAD_DIR)
        target_path == PathResolve(PathJoin(UPLOAD_DIR, Val(layer.uri))) IN
    IF download_rejects(us, header, token_query, t)
    THEN Response("download", req, 401, CREDENTIALS_DETAIL, NoBody)
    ELSE IF found = {}
    THEN Response("download", req, 404, "Camada nao encontrada", NoBody)
    ELSE IF layer.provider # "gpkg"
    THEN Response("download", req, 400,
                  "Download disponivel apenas para camadas GPKG.", NoBody)
    ELSE IF IsNone(layer.uri) \/ Val(layer.uri).segs = <<>>
    THEN Response("download", req, 404,
                  "Caminho do GPKG nao registrado para esta camada.", NoBody)
    ELSE IF ~IsRelativeTo(target_path, base_dir)
    THEN Response("download", req, 400, "Caminho do arquivo invalido.", NoBody)
    ELSE IF ~IsFile(fs, target_path)
    THEN Response("download", req, 404, "Arquivo GPKG nao encontrado.", NoBody)
    ELSE Response("download", req, 200, "",
                  [kind |-> "file", path |-> OsResolve(target_path),
                   filename |-> Val(layer.uri).segs[Len(Val(layer.uri).segs)]])

DownloadLayerGpkg ==
    \E layer_id \in {row.id : row \in layers} \cup {99},
       header \in Headers(now), token_query \in QueryTokens(now) :
        /\ resp' = download_layer_gpkg(users, layers, files, layer_id, header,
                                       token_query, now)
        /\ UNCHANGED <<users, layers, files, now, nextLayerId, nextUuid, inflight, browserVars, sessionVars, pluginVars, queryVars, pivotVars>>

(***************************************************************************)
(* browser_integration.py: the connection registry and the Browser node.   *)
(* A connection holds the keys the registry reads; port, database and user *)
(* are empty in every connection of the model, so a fingerprint is the     *)
(* pair of its first two parts.  A dict is a sequence in insertion order.  *)
(***************************************************************************)
SUPPORTED_DRIVERS ==
    { <<"p", "o", "s", "t", "g", "r", "e", "s">>,
      <<"p", "o", "s", "t", "g", "r", "e", "s", "q", "l">>,
      <<"p", "o", "s", "t", "g", "i", "s">>,
      <<"s", "q", "l", " ", "s", "e", "r", "v", "e", "r">>,
      <<"m", "s", "s", "q", "l">> }

Connection(name, driver, host, fingerprint) ==
    [name |-> name, driver |-> driver, host |-> host, fingerprint |-> fingerprint]

_fingerprint(conn) ==
    << Lower(IF conn.driver = <<>> THEN <<"u", "n", "k", "n", "o", "w", "n">>
             ELSE conn.driver),
       conn.host >>

_is_supported_driver(driver) == Lower(Strip(driver)) \in SUPPORTED_DRIVERS

\* IntegrationConnectionRegistry._sanitize
_sanitize(conn) ==
    IF IsNone(conn.fingerprint)
    THEN [conn EXCEPT !.fingerprint = Some(_fingerprint(conn))]
    ELSE conn

\* d[key] = value, d.setdefault(key, value), d.pop(key, None), key in d
HasKey(d, fp) == \E i \in 1..Len(d) : d[i].fingerprint = fp

DictSet(d, conn) ==
    IF HasKey(d, conn.fingerprint)
    THEN [i \in 1..Len(d) |->
             IF d[i].fingerprint = conn.fingerprint THEN conn ELSE d[i]]
    ELSE Append(d, conn)

DictSetDefault(d, conn) == IF HasKey(d, conn.fingerprint) THEN d ELSE Append(d, conn)

DictPop(d, fp) == SelectSeq(d, LAMBDA c : c.fingerprint # fp)

RECURSIVE DictFromList(_, _)
DictFromList(d, list) ==
    IF list = <<>> THEN d ELSE DictFromList(DictSet(d, Head(list)), Tail(list))

RECURSIVE SetDefaultAll(_, _)
SetDefaultAll(d, list) ==
    IF list = <<>> THEN d
    ELSE SetDefaultAll(DictSetDefault(d, Head(list)), Tail(list))

all_connections(sv, rt) == SetDefaultAll(DictFromList(<<>>, sv), rt)

\* Drops the oldest runtime entries beyond the limit.
_prune_runtime(rt, limit) ==
    IF Len(rt) <= limit THEN rt ELSE SubSeq(rt, Len(rt) - limit + 1, Len(rt))

\* The registry operations give the new lists and whether connectionsChanged
\* was emitted.
Registry(sv, rt, emit) == [saved |-> sv, runtime |-> rt, emit |-> emit]

replace_saved_connections(rt, conns) ==
    LET newSaved == [i \in 1..Len(conns) |-> _sanitize(conns[i])]
        saved_keys == {newSaved[i].fingerprint : i \in 1..Len(newSaved)}
        kept == SelectSeq(rt, LAMBDA c : c.fingerprint \notin saved_keys) IN
    Registry(newSaved, _prune_runtime(kept, 5), TRUE)

remove_connection(sv, rt, fingerprint) ==
    LET updated == SelectSeq(sv, LAMBDA c : c.fingerprint # fingerprint)
        popped == DictPop(rt, fingerprint) IN
    IF IsNone(fingerprint) THEN Registry(sv, rt, FALSE)
    ELSE IF Len(updated) = Len(sv)
    THEN IF ~HasKey(popped, fingerprint)
         THEN Registry(sv, popped, FALSE)
         ELSE Registry(updated, popped, TRUE)
    ELSE Registry(updated, rt, TRUE)

register_runtime_connection(sv, rt, connection) ==
    LET payload == _sanitize(Val(connection)) IN
    IF IsNone(connection) THEN Registry(sv, rt, FALSE)
    ELSE IF HasKey(sv, payload.fingerprint)
    THEN Registry(sv, DictPop(rt, payload.fingerprint), TRUE)
    ELSE Registry(sv, _prune_runtime(DictSet(rt, payload), 5), TRUE)

\* PowerBIRootItem.createChildren
CloudRootItem == [kind |-> "cloud"]
PlaceholderItem == [kind |-> "placeholder"]
ConnectionItem(conn) == [kind |-> "connection", meta |-> conn]

createChildren(sv, rt) ==
    LET shown == SelectSeq(all_connections(sv, rt),
                           LAMBDA c : _is_supported_driver(c.driver))
        local_items == [i \in 1..Len(shown) |-> ConnectionItem(shown[i])] IN
    <<CloudRootItem>> \o (IF local_items # <<>> THEN local_items
                          ELSE <<PlaceholderItem>>)

\* The connections the panels hand to the registry.
SavedPg == Connection("s1", <<"p", "o", "s", "t", "g", "r", "e", "s">>, "h1", None)
SavedPgAgain == Connection("s3", <<"P", "o", "s", "t", "g", "r", "e", "s">>, "h1", None)
SavedSqlite ==
    Connection("s2", <<"s", "q", "l", "i", "t", "e">>, "h2", Some(<<<<"s", "q", "l", "i", "t", "e">>, "x">>))

SavedLists ==
    { <<>>, <<SavedPg>>, <<SavedSqlite>>, <<SavedPg, SavedPgAgain>>,
      <<SavedSqlite, SavedPg>> }

RuntimeConnections ==
    { None,
      Some(Connection("r1", <<"p", "o", "s", "t", "g", "r", "e", "s">>, "h1", None)),
      Some(Connection("r2", <<" ", "m", "s", "s", "q", "l", " ">>, "h2", None)),
      Some(Connection("r3", <<"p", "o", "s", "t", "g", "i", "s">>, "h3", None)),
      Some(Connection("r4", <<"p", "o", "s", "t", "g", "r", "e", "s">>, "h4", None)),
      Some(Connection("r5", <<"p", "o", "s", "t", "g", "r", "e", "s">>, "h5", None)),
      Some(Connection("r6", <<"s", "q", "l", "i", "t", "e">>, "h6", None)) }

\* connectionsChanged is connected to PowerBIRootItem.refresh.
Deliver(r) ==
    /\ saved' = r.saved
    /\ runtime' = r.runtime
    /\ children' = IF r.emit THEN createChildren(r.saved, r.runtime) ELSE children

ReplaceSavedConnections ==
    \E conns \in SavedLists :
        /\ Deliver(replace_saved_connections(runtime, conns))
        /\ UNCHANGED <<apiVars, sessionVars, pluginVars, queryVars, pivotVars>>

RegisterRuntimeConnection ==
    \E connection \in RuntimeConnections :
        /\ Deliver(register_runtime_connection(saved, runtime, connection))
        /\ UNCHANGED <<apiVars, sessionVars, pluginVars, queryVars, pivotVars>>

\* PowerBIConnectionItem._remove_connection, confirmed, on an item on show.
RemoveConnection ==
    \E i \in 1..Len(children) :
        /\ children[i].kind = "connection"
        /\ Deliver(remove_connection(saved, runtime, children[i].meta.fingerprint))
        /\ UNCHANGED <<apiVars, sessionVars, pluginVars, queryVars, pivotVars>>

\* "Atualizar lista"
Refresh ==
    /\ children' = createChildren(saved, runtime)
    /\ UNCHANGED <<saved, runtime, apiVars, sessionVars, pluginVars, queryVars, pivotVars>>

\* No connection was ever saved or registered.
BrowserIdle ==
    /\ saved = <<>>
    /\ runtime = <<>>
    /\ children = createChildren(<<>>, <<>>)

(***************************************************************************)
(* cloud_session.py: the client session.  The functions take the session   *)
(* object's fields as a record st (session, persisted, connections,        *)
(* isReloading, emitted) and the surroundings as a record env (config,     *)
(* credentials, net, users, layers, now), and give the fields back with    *)
(* the exception raised, "none" when the call returned.                    *)
(***************************************************************************)
TOKEN_REFRESH_THRESHOLD == 300

\* The JSON value under "access_token": a text that is a JWT, another text,
\* or a value that is no text.
JwtText(tok) == [type |-> "str", jwt |-> Some(tok), made |-> <<>>]
OpaqueText(username, t) == [type |-> "str", jwt |-> None, made |-> <<username, t>>]
NumberToken == [type |-> "int", jwt |-> None, made |-> <<>>]

\* token.split(".") needs a text; the claims are the middle part.
_decode_jwt_payload(token) ==
    IF token.type # "str" THEN [raised |-> "AttributeError", claims |-> None]
    ELSE IF IsNone(token.jwt) THEN [raised |-> "none", claims |-> None]
    ELSE [raised |-> "none", claims |-> Some(Val(token.jwt).payload)]

_obfuscate_token(token) == <<"obf", token>>

\* Who answers the HTTP requests of one call: nobody, this repository's API,
\* or another server whose login answer has no token, a token that is no
\* text, or a token that is no JWT.
Remotes == {"down", "api", "no_token", "number_token", "opaque_token"}

Environment(net) ==
    [config |-> config, credentials |-> credentials, net |-> net,
     users |-> users, layers |-> layers, now |-> now]

SessionObject ==
    [session |-> session, persisted |-> persisted, connections |-> connections,
     isReloading |-> isReloading, emitted |-> <<>>]

Outcome(st, raised) == [st |-> st, raised |-> raised]

Emit(st, signal) == [st EXCEPT !.emitted = Append(@, signal)]

hosting_ready(cfg) == cfg.hosting_ready

\* _request_json("POST", login_endpoint): the decoded answer, or nothing
\* when the request or the decoding fails.
ApiLoginAnswer(r) ==
    IF r.status # 200 THEN None
    ELSE Some([access_token |-> Some(JwtText(r.body.access_token)),
               token_type |-> Some(r.body.token_type),
               expires_in |-> Some(r.body.expires_in)])

LoginAnswer(env, username, password) ==
    CASE env.net = "api" ->
             ApiLoginAnswer(login(env.users, username, password, env.now))
      [] env.net = "no_token" ->
             Some([access_token |-> None, token_type |-> None, expires_in |-> None])
      [] env.net = "number_token" ->
             Some([access_token |-> Some(NumberToken), token_type |-> None,
                   expires_in |-> None])
      [] env.net = "opaque_token" ->
             Some([access_token |-> Some(OpaqueText(username, 0)),
                   token_type |-> None, expires_in |-> None])
      [] OTHER -> None

\* _fetch_profile: GET /me, best effort.
ProfileOf(r) == IF r.status = 200 THEN Some(r.body.user) ELSE None

_fetch_profile(env, token) ==
    IF env.net = "api" /\ ~IsNone(token.jwt)
    THEN ProfileOf(get_me(env.users, Val(token.jwt), env.now))
    ELSE None

_enrich_session_with_profile(sess, profile) ==
    [sess EXCEPT !.role = Some(profile.role),
                 !.is_admin = is_admin(profile),
                 !.user_id = Some(profile.id)]

Enriched(sess, profile) ==
    IF IsNone(profile) THEN sess
    ELSE _enrich_session_with_profile(sess, Val(profile))

WithExpiry(sess, expires_in, t) ==
    IF Val(expires_in) > 0
    THEN [sess EXCEPT !.expires_in = expires_in,
                      !.expires_at = Some(t + Val(expires_in))]
    ELSE sess

RemoteSession(env, username, data) ==
    WithExpiry(
        Enriched([username |-> username, token |-> data.access_token,
                  issued |-> env.now, mode |-> "remote",
                  token_type |-> IF IsNone(data.token_type) THEN "bearer"
                                 ELSE Val(data.token_type),
                  role |-> None, is_admin |-> FALSE, user_id |-> None,
                  expires_in |-> None, expires_at |-> None,
                  token_expiry_unix |-> None],
                 _fetch_profile(env, Val(data.access_token))),
        OrElse(data.expires_in, Some(0)), env.now)

RemoteLoginFrom(env, username, answer) ==
    IF IsNone(answer) THEN [raised |-> "RuntimeError", session |-> None]
    ELSE IF IsNone(Val(answer).access_token)
    THEN [raised |-> "RuntimeError", session |-> None]
    ELSE [raised |-> "none",
          session |-> Some(RemoteSession(env, username, Val(answer)))]

_remote_login(env, username, password) ==
    RemoteLoginFrom(env, username, LoginAnswer(env, username, password))

\* The token is the digest of the user name and a fresh uuid.
MockRole(username) ==
    IF Lower(Strip(username)) = ADMIN_EMAIL THEN "admin" ELSE "user"

_mock_login(env, username) ==
    [username |-> username, token |-> Some(OpaqueText(username, env.now)),
     issued |-> env.now, mode |-> "mock", token_type |-> "bearer",
     role |-> Some(MockRole(username)), is_admin |-> MockRole(username) = "admin",
     user_id |-> None, expires_in |-> None, expires_at |-> None,
     token_expiry_unix |-> None]

WithClaims(cleared, decoded) ==
    IF decoded.raised # "none"
    THEN [raised |-> decoded.raised, session |-> cleared]
    ELSE IF IsNone(decoded.claims) \/ IsNone(Val(decoded.claims).exp)
    THEN [raised |-> "none", session |-> cleared]
    ELSE [raised |-> "none",
          session |-> [cleared EXCEPT
                          !.token_expiry_unix = Val(decoded.claims).exp,
                          !.expires_at = Val(decoded.claims).exp]]

_apply_token_metadata(sess) ==
    IF IsNone(sess.token)
    THEN [raised |-> "none", session |-> [sess EXCEPT !.token_expiry_unix = None]]
    ELSE WithClaims([sess EXCEPT !.token_expiry_unix = None],
                    _decode_jwt_payload(Val(sess.token)))

_persist_session(st) ==
    IF IsNone(st.session) THEN [st EXCEPT !.persisted = None]
    ELSE [st EXCEPT !.persisted =
              Some([Val(st.session) EXCEPT
                       !.token = IF IsNone(@) THEN @
                                 ELSE Some(_obfuscate_token(Val(@))),
                       !.token_expiry_unix = None])]

SecondsUntil(exp_unix, t) ==
    IF IsNone(exp_unix) THEN None ELSE Some(Val(exp_unix) - t)

_seconds_until_expiry(sessionOpt, t) ==
    IF IsNone(sessionOpt) THEN None
    ELSE IF IsNone(Val(sessionOpt).token) THEN None
    ELSE SecondsUntil(OrElse(OrElse(Val(sessionOpt).token_expiry_unix,
                                    Val(sessionOpt).expires_at), None), t)

NotExpired(seconds) == IF IsNone(seconds) THEN TRUE ELSE Val(seconds) > 0

is_authenticated(sessionOpt, t) ==
    IF IsNone(sessionOpt) THEN FALSE
    ELSE IF IsNone(Val(sessionOpt).token) THEN FALSE
    ELSE NotExpired(_seconds_until_expiry(sessionOpt, t))

SessionMode(sessionOpt) == IF IsNone(sessionOpt) THEN "none" ELSE Val(sessionOpt).mode

\* _load_mock_connections() and the catalog built by _fetch_remote_layers.
MockConnections == [kind |-> "mock", layers |-> <<>>]
RemoteConnections(items) ==
    [kind |-> "remote", layers |-> [i \in 1..Len(items) |-> items[i].id]]

\* _apply_session up to its last statement, the reload of the catalog that
\* reload_layers asks for.
Applied(st, sess, notify, meta) ==
    IF meta.raised # "none"
    THEN Outcome([st EXCEPT !.session = Some(sess)], meta.raised)
    ELSE IF notify
    THEN Outcome(Emit(_persist_session([st EXCEPT !.session = Some(meta.session)]),
                      "sessionChanged"), "none")
    ELSE Outcome(_persist_session([st EXCEPT !.session = Some(meta.session)]), "none")

_apply_session(st, sess, notify) ==
    Applied(st, sess, notify, _apply_token_metadata(sess))

\* ret tells whether the token was renewed.  The reload of the catalog that
\* ends _apply_session when reload_layers is set is RenewalReload, below.
Renewed(applied) == [st |-> applied.st, raised |-> applied.raised, ret |-> TRUE]

AutoLoginFrom(st, r) ==
    IF r.raised # "none" THEN [st |-> st, raised |-> "none", ret |-> FALSE]
    ELSE Renewed(_apply_session(st, Val(r.session), TRUE))

_try_auto_login(st, env) ==
    IF IsNone(env.credentials) THEN [st |-> st, raised |-> "none", ret |-> FALSE]
    ELSE IF Val(env.credentials)[1] = <<>> \/ Val(env.credentials)[2] = ""
    THEN [st |-> st, raised |-> "none", ret |-> FALSE]
    ELSE AutoLoginFrom(st, _remote_login(env, Val(env.credentials)[1],
                                         Val(env.credentials)[2]))

\* expired: the token is missing or past its expiry, a renewal is needed;
\* otherwise the token is about to expire and the renewal is best effort.
AfterRenewal(expired, renewed) ==
    IF renewed.raised # "none" THEN Outcome(renewed.st, renewed.raised)
    ELSE IF expired /\ ~renewed.ret THEN Outcome(renewed.st, "RuntimeError")
    ELSE Outcome(renewed.st, "none")

TokenGone(st, seconds) ==
    IsNone(Val(st.session).token) \/ (~IsNone(seconds) /\ Val(seconds) <= 0)

EnsureWith(st, env, seconds) ==
    IF TokenGone(st, seconds)
       \/ (~IsNone(seconds) /\ Val(seconds) < TOKEN_REFRESH_THRESHOLD)
    THEN AfterRenewal(TokenGone(st, seconds), _try_auto_login(st, env))
    ELSE Outcome(st, "none")

_ensure_valid_remote_token(st, env) ==
    IF SessionMode(st.session) # "remote" THEN Outcome(st, "none")
    ELSE EnsureWith(st, env, _seconds_until_expiry(st.session, env.now))

AuthenticatedAfter(ensured, t) ==
    IF ensured.raised # "none" THEN [st |-> ensured.st, ret |-> FALSE]
    ELSE [st |-> ensured.st, ret |-> is_authenticated(ensured.st.session, t)]

_should_use_remote_layers(st, env) ==
    IF ~hosting_ready(env.config) THEN [st |-> st, ret |-> FALSE]
    ELSE IF SessionMode(st.session) # "remote" THEN [st |-> st, ret |-> FALSE]
    ELSE IF is_authenticated(st.session, env.now) THEN [st |-> st, ret |-> TRUE]
    ELSE AuthenticatedAfter(_ensure_valid_remote_token(st, env), env.now)

\* The Authorization header's token, after _ensure_valid_remote_token.
HeadersAfter(ensured) ==
    IF ensured.raised # "none"
    THEN [st |-> ensured.st, raised |-> ensured.raised, token |-> None]
    ELSE IF IsNone(ensured.st.session) \/ IsNone(Val(ensured.st.session).token)
    THEN [st |-> ensured.st, raised |-> "RuntimeError", token |-> None]
    ELSE [st |-> ensured.st, raised |-> "none",
          token |-> Val(ensured.st.session).token]

_auth_headers(st, env) == HeadersAfter(_ensure_valid_remote_token(st, env))

LayersAnswer(after, r) ==
    IF r.status # 200
    THEN [st |-> after, raised |-> "RuntimeError", connections |-> None]
    ELSE [st |-> after, raised |-> "none",
          connections |-> Some(RemoteConnections(r.body.items))]

FetchWith(env, headers) ==
    IF headers.raised # "none"
    THEN [st |-> headers.st, raised |-> headers.raised, connections |-> None]
    ELSE IF env.net # "api" \/ IsNone(Val(headers.token).jwt)
    THEN [st |-> headers.st, raised |-> "RuntimeError", connections |-> None]
    ELSE LayersAnswer(headers.st,
                      list_layers(env.users, env.layers,
                                  Val(Val(headers.token).jwt), env.now))

_fetch_remote_layers(st, env) == FetchWith(env, _auth_headers(st, env))

CatalogFrom(fetched) ==
    IF fetched.raised # "none"
    THEN [fetched.st EXCEPT !.connections = MockConnections]
    ELSE [fetched.st EXCEPT !.connections = Val(fetched.connections)]

Reloaded(env, use) ==
    IF ~use.ret THEN [use.st EXCEPT !.connections = MockConnections]
    ELSE CatalogFrom(_fetch_remote_layers(use.st, env))

\* The body of reload_mock_layers up to the end of layersChanged.emit, the
\* flag still set.
ReloadEmitted(st, env) ==
    Emit(Reloaded(env, _should_use_remote_layers(
                           [st EXCEPT !.isReloading = TRUE], env)),
         "layersChanged")

reload_mock_layers_reentrant(st, env) ==
    [ReloadEmitted(st, env) EXCEPT !.isReloading = FALSE]

reload_mock_layers(st, env) ==
    IF st.isReloading THEN st
    ELSE [ReloadEmitted(st, env) EXCEPT !.isReloading = FALSE]

\* _try_auto_login passes reload_layers = not _is_reloading: a renewal made
\* outside a reload ends _apply_session with reload_mock_layers.  before is
\* the session object at the call and r what the call gave back; a renewal
\* that went through emitted sessionChanged.
RenewalReload(before, env, r) ==
    IF ~before.isReloading /\ Len(r.st.emitted) > Len(before.emitted)
    THEN [r EXCEPT !.st = reload_mock_layers(r.st, env)]
    ELSE r

\* PowerBICloudSession.login; _apply_session(session) ends with the reload.
ReloadAfter(env, applied) ==
    IF applied.raised # "none" THEN applied
    ELSE Outcome(reload_mock_layers(applied.st, env), "none")

LoginWith(st, env, made) ==
    IF made.raised # "none" THEN Outcome(st, made.raised)
    ELSE ReloadAfter(env, _apply_session(st, Val(made.session), TRUE))

LoginChecked(st, env, username, password) ==
    IF username = <<>> \/ password = "" THEN Outcome(st, "ValueError")
    ELSE LoginWith(st, env,
                   IF hosting_ready(env.config)
                   THEN _remote_login(env, username, password)
                   ELSE [raised |-> "none",
                         session |-> Some(_mock_login(env, username))])

cloud_session_login(st, env, username_in, password) ==
    LoginChecked(st, env, Strip(username_in), password)

logout_without_reload(st, env) ==
    IF IsNone(st.session) THEN st
    ELSE Emit(_persist_session([st EXCEPT !.session = None]), "sessionChanged")

logout(st, env) ==
    IF IsNone(st.session) THEN st
    ELSE Emit(reload_mock_layers(_persist_session([st EXCEPT !.session = None]), env),
              "sessionChanged")

\* update_config(hosting_ready=...): the other keys keep their values.
update_config(cfg, hosting_ready_in) ==
    IF ~IsNone(hosting_ready_in) /\ Val(hosting_ready_in) # cfg.hosting_ready
    THEN [config |-> [cfg EXCEPT !.hosting_ready = Val(hosting_ready_in)],
          updated |-> TRUE]
    ELSE [config |-> cfg, updated |-> FALSE]

\* What the user types into the login dialog, or a caller passes to login.
LoginInputs ==
    { <<ADMIN_EMAIL, ADMIN_PASSWORD>>,
      <<<<" ">> \o USER_EMAIL, "pw">>,
      <<USER_EMAIL, ADMIN_PASSWORD>>,
      <<<<" ">>, "pw">>,
      <<USER_EMAIL, "">> }

DialogInputs ==
    { <<ADMIN_EMAIL, ADMIN_PASSWORD>>,
      <<<<" ">> \o USER_EMAIL, "pw">>,
      <<<<" ">>, "pw">> }

Store(st) ==
    /\ session' = st.session
    /\ persisted' = st.persisted
    /\ connections' = st.connections
    /\ isReloading' = st.isReloading
    /\ emitted' = st.emitted

Returned(username, password, r) ==
    /\ Store(r.st)
    /\ lastCall' = [op |-> "login", username |-> username,
                    password |-> password, raised |-> r.raised]

SessionLogin ==
    \E input \in LoginInputs, net \in Remotes :
        /\ Returned(input[1], input[2],
                    cloud_session_login(SessionObject, Environment(net),
                                        input[1], input[2]))
        /\ UNCHANGED <<config, credentials, apiVars, browserVars, pluginVars, queryVars, pivotVars>>

\* update_saved_credentials follows a login that returned.
Remembered(username, password, remember, r) ==
    /\ Returned(username, password, r)
    /\ credentials' = IF r.raised # "none" THEN credentials
                      ELSE IF remember THEN Some(<<username, password>>)
                      ELSE None

\* PowerBICloudDialog._handle_login
HandleLogin ==
    \E input \in DialogInputs, remember \in BOOLEAN, net \in Remotes :
        IF Strip(input[1]) = <<>> \/ input[2] = ""
        THEN /\ lastCall' = [op |-> "login_warning"]
             /\ emitted' = <<>>
             /\ UNCHANGED <<session, persisted, connections, isReloading, config,
                            credentials, apiVars, browserVars, pluginVars, queryVars, pivotVars>>
        ELSE /\ Remembered(Strip(input[1]), input[2], remember,
                            cloud_session_login(SessionObject, Environment(net),
                                                Strip(input[1]), input[2]))
             /\ UNCHANGED <<config, apiVars, browserVars, pluginVars, queryVars, pivotVars>>

Logout ==
    /\ Store(logout(SessionObject, Environment("down")))
    /\ lastCall' = [op |-> "logout"]
    /\ UNCHANGED <<config, credentials, apiVars, browserVars, pluginVars, queryVars, pivotVars>>

UpdateConfig ==
    \E hosting_ready_in \in {None, Some(TRUE), Some(FALSE)} :
        /\ config' = update_config(config, hosting_ready_in).config
        /\ emitted' = IF update_config(config, hosting_ready_in).updated
                      THEN <<"configChanged">> ELSE <<>>
        /\ lastCall' = [op |-> "update_config"]
        /\ UNCHANGED <<session, persisted, connections, isReloading, credentials,
                       apiVars, browserVars, pluginVars, queryVars, pivotVars>>

ReloadMockLayers ==
    \E net \in Remotes :
        /\ Store(reload_mock_layers(SessionObject, Environment(net)))
        /\ lastCall' = [op |-> "reload_mock_layers"]
        /\ UNCHANGED <<config, credentials, apiVars, browserVars, pluginVars, queryVars, pivotVars>>

(***************************************************************************)
(* browser_integration.py: "Gerenciar -> Deletar Camada" on a layer of the *)
(* Cloud node, cloud_session.delete_cloud_layer and the API's route table. *)
(***************************************************************************)
\* PowerBICloudSession.is_admin
session_is_admin_by_role(sessionOpt, t) ==
    IF IsNone(sessionOpt) THEN FALSE
    ELSE \/ (~IsNone(Val(sessionOpt).role)
             /\ LowerRole(Val(Val(sessionOpt).role)) = "admin")
         \/ Val(sessionOpt).is_admin
         \/ Lower(Strip(Val(sessionOpt).username)) = ADMIN_EMAIL

session_is_admin(sessionOpt, t) ==
    IF ~is_authenticated(sessionOpt, t) THEN FALSE
    ELSE \/ (~IsNone(Val(sessionOpt).role)
             /\ LowerRole(Val(Val(sessionOpt).role)) = "admin")
         \/ Val(sessionOpt).is_admin
         \/ Lower(Strip(Val(sessionOpt).username)) = ADMIN_EMAIL

\* The routes the application serves (main.py, admin.py), the path
\* parameter written as in the decorators.
ApiRoutes ==
    { [method |-> "GET", path |-> <<"health">>],
      [method |-> "POST", path |-> <<"login">>],
      [method |-> "GET", path |-> <<"me">>],
      [method |-> "GET", path |-> <<"layers">>],
      [method |-> "GET", path |-> <<"layers", "{layer_id}", "download-gpkg">>],
      [method |-> "POST", path |-> <<"admin", "create-user">>],
      [method |-> "POST", path |-> <<"admin", "upload-layer-gpkg">>] }

\* What the router answers before any handler runs: 404 when no route has
\* the path, 405 when none of them has the method, else 0 (a handler runs).
RouteStatus(method, path) ==
    IF ~\E r \in ApiRoutes : r.path = path THEN 404
    ELSE IF ~\E r \in ApiRoutes : r.path = path /\ r.method = method THEN 405
    ELSE 0

\* Names bound in module browser_integration: its imports and definitions.
BrowserModuleNames ==
    {"json", "os", "dataclass", "QObject", "QSettings", "Qt", "pyqtSignal",
     "QIcon", "QAction", "QMessageBox", "QWidget", "QDialog", "Qgis",
     "QgsApplication", "QgsDataCollectionItem", "QgsDataItem",
     "QgsDataItemProvider", "QgsDataProvider", "QgsDataSourceUri",
     "QgsLayerItem", "QgsProviderRegistry", "QgsGui", "cloud_session",
     "open_cloud_dialog", "PostgresQuickConnectDialog",
     "_refresh_browser_model", "connection_registry"}

\* _request_json("DELETE", "/layers/<id>", headers): raise_for_status turns
\* every answer that is not a success into RuntimeError.
DeleteRequest(layer_id, token) ==
    [method |-> "DELETE", path |-> <<"layers", "{layer_id}">>,
     layer_id |-> layer_id, token |-> token]

DeleteWith(env, layer_id, headers) ==
    IF headers.raised # "none"
    THEN [st |-> headers.st, raised |-> headers.raised, request |-> None]
    ELSE IF env.net # "api"
    THEN [st |-> headers.st, raised |-> "RuntimeError",
          request |-> Some(DeleteRequest(layer_id, Val(headers.token)))]
    ELSE IF RouteStatus("DELETE", <<"layers", "{layer_id}">>) # 0
    THEN [st |-> headers.st, raised |-> "RuntimeError",
          request |-> Some(DeleteRequest(layer_id, Val(headers.token)))]
    ELSE [st |-> headers.st, raised |-> "none",
          request |-> Some(DeleteRequest(layer_id, Val(headers.token)))]

DeleteUsing(env, layer_id, use) ==
    IF ~use.ret THEN [st |-> use.st, raised |-> "RuntimeError", request |-> None]
    ELSE DeleteWith(env, layer_id,
                    RenewalReload(use.st, env, _auth_headers(use.st, env)))

delete_cloud_layer(st, env, layer_id) ==
    DeleteUsing(env, layer_id,
                RenewalReload(st, env, _should_use_remote_layers(st, env)))

\* The item offers the action for a remote layer whose provider is gpkg, to
\* an authenticated admin.
_can_delete_layer(conns, ls, sessionOpt, t, layer_id) ==
    /\ conns.kind = "remote"
    /\ \E i \in 1..Len(conns.layers) : conns.layers[i] = layer_id
    /\ \E row \in ls : row.id = layer_id /\ row.provider = "gpkg"
    /\ is_authenticated(sessionOpt, t)
    /\ session_is_admin(sessionOpt, t)

\* _delete_layer once the user answered Yes: the session afterwards, the
\* exception that left the slot, the message box shown, the request sent.
DeleteShown(env, deleted) ==
    IF deleted.raised # "none"
    THEN [st |-> deleted.st, raised |-> "none", message |-> "warning",
          request |-> deleted.request]
    ELSE [st |-> reload_mock_layers(deleted.st, env), raised |-> "none",
          message |-> "information", request |-> deleted.request]

_delete_layer(st, env, layer_id) ==
    IF "QgsMessageLog" \notin BrowserModuleNames
    THEN [st |-> st, raised |-> "NameError", message |-> "none", request |-> None]
    ELSE DeleteShown(env, delete_cloud_layer(st, env, layer_id))

DeleteLayer ==
    \E layer_id \in {row.id : row \in layers}, net \in {"api", "down"} :
        /\ _can_delete_layer(connections, layers, session, now, layer_id)
        /\ Store(_delete_layer(SessionObject, Environment(net), layer_id).st)
        /\ lastCall' =
              [op |-> "delete_layer", layer_id |-> layer_id, net |-> net,
               raised |-> _delete_layer(SessionObject, Environment(net),
                                        layer_id).raised,
               message |-> _delete_layer(SessionObject, Environment(net),
                                         layer_id).message,
               request |-> _delete_layer(SessionObject, Environment(net),
                                         layer_id).request]
        /\ UNCHANGED <<config, credentials, apiVars, browserVars, pluginVars, queryVars, pivotVars>>

(***************************************************************************)
(* The admin actions of the client: cloud_session.create_cloud_user and    *)
(* upload_layer_gpkg, the two slots of the Cloud dialog that call them     *)
(* (cloud_dialogs.py), and the upload button (data_summarizer.py).         *)
(***************************************************************************)
AdminPost(path, token) == [method |-> "POST", path |-> path, token |-> token]

\* What the server answered and the tables it left.  Nothing is handled
\* when the request does not reach this repository's API; a server that is
\* not this API has no admin route (404); a token that is no JWT does not
\* decode (401).
NotHandled(env, fs, status) ==
    [status |-> status, users |-> env.users, layers |-> env.layers,
     files |-> fs, began |-> FALSE, inserted |-> FALSE]

UserCreated(env, fs, r) ==
    [status |-> r.resp.status, users |-> r.users, layers |-> env.layers,
     files |-> fs, began |-> FALSE, inserted |-> FALSE]

Sent(headers, raised, path, api) ==
    [st |-> headers.st, raised |-> raised,
     request |-> Some(AdminPost(path, Val(headers.token))), api |-> api]

CreateUserWith(env, fs, email, password, headers) ==
    IF headers.raised # "none"
    THEN [st |-> headers.st, raised |-> headers.raised, request |-> None,
          api |-> NotHandled(env, fs, 0)]
    ELSE IF env.net = "down"
    THEN Sent(headers, "RuntimeError", <<"admin", "create-user">>,
              NotHandled(env, fs, 0))
    ELSE IF env.net # "api"
    THEN Sent(headers, "none", <<"admin", "create-user">>, NotHandled(env, fs, 404))
    ELSE IF IsNone(Val(headers.token).jwt)
    THEN Sent(headers, "none", <<"admin", "create-user">>, NotHandled(env, fs, 401))
    ELSE Sent(headers, "none", <<"admin", "create-user">>,
              UserCreated(env, fs,
                          create_user(env.users, Val(Val(headers.token).jwt),
                                      email, password, "s1", env.now)))

create_cloud_user(st, env, fs, email, password) ==
    CreateUserWith(env, fs, email, password,
                   RenewalReload(st, env, _auth_headers(st, env)))

\* The API's upload handler, from the request to the response.
Uploaded(env, finished) ==
    [status |-> finished.resp.status, users |-> env.users,
     layers |-> finished.layers, files |-> finished.files, began |-> TRUE,
     inserted |-> finished.inserted]

UploadHandled(env, fs, layerId, begun) ==
    IF ~begun.ok THEN NotHandled(env, fs, begun.resp.status)
    ELSE Uploaded(env, upload_finish(env.layers, fs \cup {begun.call.target},
                                     begun.call, layerId))

UploadWith(env, fs, form, uuid, layerId, headers) ==
    IF headers.raised # "none"
    THEN [st |-> headers.st, raised |-> headers.raised, request |-> None,
          api |-> NotHandled(env, fs, 0)]
    ELSE IF env.net = "down"
    THEN Sent(headers, "RuntimeError", <<"admin", "upload-layer-gpkg">>,
              NotHandled(env, fs, 0))
    ELSE IF env.net # "api"
    THEN Sent(headers, "none", <<"admin", "upload-layer-gpkg">>,
              NotHandled(env, fs, 404))
    ELSE IF IsNone(Val(headers.token).jwt)
    THEN Sent(headers, "none", <<"admin", "upload-layer-gpkg">>,
              NotHandled(env, fs, 401))
    ELSE Sent(headers, "none", <<"admin", "upload-layer-gpkg">>,
              UploadHandled(env, fs, layerId,
                            upload_begin(env.users, env.layers,
                                         Val(Val(headers.token).jwt), form,
                                         uuid, env.now)))

upload_layer_gpkg(st, env, fs, form, uuid, layerId) ==
    UploadWith(env, fs, form, uuid, layerId,
               RenewalReload(st, env, _auth_headers(st, env)))

\* PowerBICloudDialog.on_create_cloud_user_clicked: the message box shown.
\* Only RuntimeError is caught.
CreateUserShown(sent) ==
    [st |-> sent.st, request |-> sent.request, api |-> sent.api,
     raised |-> IF sent.raised = "RuntimeError" THEN "none" ELSE sent.raised,
     message |-> IF sent.raised = "RuntimeError" THEN "critical"
                 ELSE IF sent.raised # "none" THEN "none"
                 ELSE IF sent.api.status \in {200, 201} THEN "information"
                 ELSE "warning"]

Refused(st, env, fs) ==
    [st |-> st, request |-> None, api |-> NotHandled(env, fs, 0),
     raised |-> "none", message |-> "warning"]

on_create_cloud_user_clicked(st, env, fs, email_in, password_in) ==
    IF ~session_is_admin(st.session, env.now) THEN Refused(st, env, fs)
    ELSE IF Strip(email_in) = <<>> \/ password_in = ""
    THEN Refused(st, env, fs)
    ELSE IF ~is_authenticated(st.session, env.now) THEN Refused(st, env, fs)
    ELSE CreateUserShown(create_cloud_user(st, env, fs, Strip(email_in),
                                           password_in))

\* PowerBICloudDialog._handle_upload_layer: every exception ends in the
\* status label; a 200 or 201 is followed by a reload of the catalog.
UploadShown(env, sent) ==
    [st |-> IF sent.raised = "none" /\ sent.api.status \in {200, 201}
            THEN reload_mock_layers(sent.st,
                                    [env EXCEPT !.layers = sent.api.layers])
            ELSE sent.st,
     request |-> sent.request, api |-> sent.api, raised |-> "none",
     message |-> IF sent.raised = "none" /\ sent.api.status \in {200, 201}
                 THEN "ok" ELSE "error"]

_handle_upload_layer(st, env, fs, form, uuid, layerId) ==
    IF ~is_authenticated(st.session, env.now)
       \/ ~session_is_admin(st.session, env.now)
    THEN Refused(st, env, fs)
    ELSE UploadShown(env, upload_layer_gpkg(st, env, fs, form, uuid, layerId))

\* PowerBISummarizerDialog.open_cloud_upload_tab: whether the dialog opens.
open_cloud_upload_tab(sessionOpt, t) ==
    is_authenticated(sessionOpt, t) /\ session_is_admin(sessionOpt, t)

\* The layers of the project the user can pick: one named like the layer
\* the admin uploaded before, one with a new name.
FormNew == UploadForm(<<"a">>, GPKG_EXT, Some(<<"a">>), None, GpkgEpsg)

ApiAfter(api) ==
    /\ users' = api.users
    /\ layers' = api.layers
    /\ files' = api.files
    /\ nextUuid' = IF api.began THEN nextUuid + 1 ELSE nextUuid
    /\ nextLayerId' = IF api.inserted THEN nextLayerId + 1 ELSE nextLayerId

AdminCall(op, net, r) ==
    /\ Store(r.st)
    /\ ApiAfter(r.api)
    /\ lastCall' = [op |-> op, net |-> net, raised |-> r.raised,
                    request |-> r.request, status |-> r.api.status]
    /\ UNCHANGED <<now, inflight, resp, config, credentials, browserVars,
                   pluginVars, queryVars, pivotVars>>

\* cloud_session.create_cloud_user called by any code of the plugin.
CreateCloudUser ==
    \E net \in Remotes :
        AdminCall("create_cloud_user", net,
                  create_cloud_user(SessionObject, Environment(net), files,
                                    NEW_EMAIL, "pw"))

CreateCloudUserClicked ==
    \E net \in {"api", "down"}, email_in \in {NEW_EMAIL, <<" ">>},
       password_in \in {"pw", ""} :
        AdminCall("on_create_cloud_user_clicked", net,
                  on_create_cloud_user_clicked(SessionObject, Environment(net),
                                               files, email_in, password_in))

HandleUploadLayer ==
    \E net \in {"api", "down"}, form \in {FormGood, FormNew} :
        AdminCall("_handle_upload_layer", net,
                  _handle_upload_layer(SessionObject, Environment(net), files,
                                       form, nextUuid, nextLayerId))

OpenCloudUploadTab ==
    /\ lastCall' = [op |-> "open_cloud_upload_tab",
                    opened |-> open_cloud_upload_tab(session, now)]
    /\ emitted' = <<>>
    /\ UNCHANGED <<session, persisted, connections, isReloading, config,
                   credentials, apiVars, browserVars, pluginVars, queryVars, pivotVars>>

\* A fresh installation: no session kept, the default configuration.
SessionIdle ==
    /\ session = None
    /\ persisted = None
    /\ config = [hosting_ready |-> FALSE]
    /\ connections = MockConnections
    /\ isReloading = FALSE
    /\ emitted = <<>>
    /\ credentials = None
    /\ lastCall = [op |-> "none"]

(***************************************************************************)
(* data_summarizer.py: the plugin object QGIS drives (initGui, unload, the *)
(* two menu actions), and browser_integration.py: the provider registry.   *)
(***************************************************************************)
\* The provider registry after the call, the provider made and whether the
\* call raised RuntimeError (no registry in this QGIS).
register_browser_provider(available, provs, id) ==
    IF ~available
    THEN [raised |-> TRUE, providers |-> provs, provider |-> None]
    ELSE [raised |-> FALSE, providers |-> Append(provs, id), provider |-> Some(id)]

unregister_browser_provider_keeps(available, provs, provider) == provs

\* The provider registry after the call.
unregister_browser_provider(available, provs, provider) ==
    IF IsNone(provider) THEN provs
    ELSE IF ~available THEN provs
    ELSE SelectSeq(provs, LAMBDA q : q # Val(provider))

\* The plugin object after PowerBISummarizer.__init__.
PluginIdle ==
    /\ actions = <<>>
    /\ menu = {}
    /\ toolbar = {}
    /\ providers = <<>>
    /\ _browser_provider = None
    /\ dlg = [made |-> FALSE, visible |-> FALSE, page |-> "main"]
    /\ inits = 0
    /\ pluginCall = "none"

initGui ==
    /\ inits < MaxInits
    /\ inits' = inits + 1
    /\ actions' = actions \o << <<"action", inits + 1>>,
                               <<"integration_action", inits + 1>> >>
    /\ menu' = menu \cup { <<"action", inits + 1>>,
                           <<"integration_action", inits + 1>> }
    /\ toolbar' = toolbar \cup { <<"action", inits + 1>> }
    /\ IF IsNone(_browser_provider)
       THEN /\ providers' = register_browser_provider(
                                registryAvailable, providers,
                                <<"provider", inits + 1>>).providers
            /\ _browser_provider' = register_browser_provider(
                                registryAvailable, providers,
                                <<"provider", inits + 1>>).provider
       ELSE UNCHANGED <<providers, _browser_provider>>
    /\ pluginCall' = "initGui"
    /\ UNCHANGED <<dlg, registryAvailable, apiVars, browserVars, sessionVars,
                   queryVars, pivotVars>>

unload ==
    /\ menu' = menu \ {actions[i] : i \in 1..Len(actions)}
    /\ toolbar' = toolbar \ {actions[i] : i \in 1..Len(actions)}
    /\ providers' = unregister_browser_provider(registryAvailable, providers,
                                                _browser_provider)
    /\ _browser_provider' = None
    /\ pluginCall' = "unload"
    /\ UNCHANGED <<actions, dlg, inits, registryAvailable, apiVars, browserVars,
                   sessionVars,
                   queryVars, pivotVars>>

\* The user triggers the main action from the menu or the toolbar.
run ==
    /\ \E a \in menu \cup toolbar : a[1] = "action"
    /\ dlg' = [made |-> TRUE, visible |-> TRUE, page |-> dlg.page]
    /\ pluginCall' = "run"
    /\ UNCHANGED <<actions, menu, toolbar, providers, _browser_provider, inits,
                   registryAvailable, apiVars, browserVars, sessionVars,
                   queryVars, pivotVars>>

\* The user triggers the integration action from the menu.
open_integration_dialog ==
    /\ \E a \in menu : a[1] = "integration_action"
    /\ dlg' = [made |-> TRUE, visible |-> TRUE, page |-> "integration"]
    /\ pluginCall' = "open_integration_dialog"
    /\ UNCHANGED <<actions, menu, toolbar, providers, _browser_provider, inits,
                   registryAvailable, apiVars, browserVars, sessionVars,
                   queryVars, pivotVars>>

\* The user closes the dialog window; the plugin keeps the object.
CloseDialog ==
    /\ dlg.visible
    /\ dlg' = [dlg EXCEPT !.visible = FALSE]
    /\ UNCHANGED <<actions, menu, toolbar, providers, _browser_provider, inits,
                   registryAvailable, pluginCall, apiVars, browserVars, sessionVars,
                   queryVars, pivotVars>>

(***************************************************************************)
(* power_query_table.py: the Power Query table.  A dataframe is its column *)
(* names and its rows in order, a row its index label and its cells by     *)
(* column name; NaN is the missing value.  _active_filters maps a column   *)
(* to the payloads selected for it.                                        *)
(***************************************************************************)
NaN == "NaN"
NULL_SENTINEL == "NULL_SENTINEL"
isna(v) == v = NaN

DataFrame(columns, rows) == [columns |-> columns, rows |-> rows]
Columns(df) == {df.columns[i] : i \in 1..Len(df.columns)}
NoFilters == [col \in {} |-> {}]

\* The mask _apply_filters builds for one column, for a cell holding v.
Mask(values, v) ==
    \/ (IF values \ {NULL_SENTINEL} # {} THEN v \in values \ {NULL_SENTINEL}
        ELSE TRUE)
    \/ (NULL_SENTINEL \in values /\ isna(v))

KeptBy(df, filters, row) ==
    \A col \in DOMAIN filters :
        IF col \in Columns(df) THEN Mask(filters[col], row.cells[col]) ELSE TRUE

\* _apply_filters, then _apply_dataframe: the new _filtered_df.
_apply_filters(df, filters) ==
    DataFrame(df.columns, SelectSeq(df.rows, LAMBDA row : KeptBy(df, filters, row)))

\* _set_transformed_df ends with _apply_dataframe(df, visible), which
\* hands df itself to the view's model and stores it as _filtered_df.
_set_transformed_df(df, reset_filters) ==
    /\ _transformed_df' = df
    /\ _active_filters' =
          IF reset_filters THEN NoFilters
          ELSE [col \in DOMAIN _active_filters \cap Columns(df) |->
                    _active_filters[col]]
    /\ _filtered_df' = df
    /\ _df' = df

\* _unique_column_name: base_name, base_name_2, base_name_3, ...
CounterText(n) == <<"2", "3", "4", "5">>[n - 1]

RECURSIVE _unique_column_name(_, _, _)
_unique_column_name(base_name, counter, existing) ==
    IF counter = 1 /\ base_name \notin existing THEN base_name
    ELSE IF counter > 1 /\ (base_name \o <<"_", CounterText(counter)>>) \notin existing
    THEN base_name \o <<"_", CounterText(counter)>>
    ELSE _unique_column_name(base_name, counter + 1, existing)

\* df[new_name] = df[column]
WithColumn(df, column, new_name) ==
    DataFrame(Append(df.columns, new_name),
              [i \in 1..Len(df.rows) |->
                  [df.rows[i] EXCEPT !.cells =
                      [col \in Columns(df) \cup {new_name} |->
                          IF col = new_name THEN df.rows[i].cells[column]
                          ELSE df.rows[i].cells[col]]]])

\* Series.ffill over the rows in order; last is the last value seen.
RECURSIVE ffill(_, _, _)
ffill(rows, column, last) ==
    IF rows = <<>> THEN <<>>
    ELSE IF isna(Head(rows).cells[column])
    THEN <<[Head(rows) EXCEPT !.cells[column] = last]>>
         \o ffill(Tail(rows), column, last)
    ELSE <<Head(rows)>> \o ffill(Tail(rows), column, Head(rows).cells[column])

\* Series.replace(old_value, new_value)
Replaced(df, column, old_value, new_value) ==
    DataFrame(df.columns,
              [i \in 1..Len(df.rows) |->
                  IF df.rows[i].cells[column] = old_value
                  THEN [df.rows[i] EXCEPT !.cells[column] = new_value]
                  ELSE df.rows[i]])

\* The payloads ValueFilterDialog offers for a column.
Payloads(df, column) ==
    {IF isna(df.rows[i].cells[column]) THEN NULL_SENTINEL
     ELSE df.rows[i].cells[column] : i \in 1..Len(df.rows)}

\* PowerQueryTable.__init__
QueryIdle ==
    /\ _base_df = DataFrame(<<>>, <<>>)
    /\ _transformed_df = DataFrame(<<>>, <<>>)
    /\ _filtered_df = DataFrame(<<>>, <<>>)
    /\ _active_filters = NoFilters
    /\ _df = DataFrame(<<>>, <<>>)

\* The tables the summary hands to set_dataframe: one text column, three
\* rows, with and without a missing value.
TableOf(values) ==
    DataFrame(<< <<"c">> >>,
              [i \in 1..Len(values) |->
                  [label |-> i, cells |-> [col \in {<<"c">>} |-> values[i]]]])

BaseFrames == {TableOf(<<"x", NaN, "y">>), TableOf(<<"x", "y", "x">>)}

\* PowerQueryTable.set_dataframe
SetDataframe ==
    \E df \in BaseFrames :
        /\ _base_df' = df
        /\ _set_transformed_df(df, TRUE)
        /\ UNCHANGED <<apiVars, browserVars, sessionVars, pluginVars,
                       pivotVars>>

\* _filter_values, the dialog accepted with the payloads selected
FilterValues ==
    \E column \in Columns(_transformed_df) :
        \E selected \in SUBSET Payloads(_transformed_df, column) :
            /\ _active_filters' =
                  IF selected = {} \/ selected = Payloads(_transformed_df, column)
                  THEN [col \in DOMAIN _active_filters \ {column} |->
                            _active_filters[col]]
                  ELSE [col \in DOMAIN _active_filters \cup {column} |->
                            IF col = column THEN selected
                            ELSE _active_filters[col]]
            /\ _filtered_df' = _apply_filters(_transformed_df, _active_filters')
            /\ _df' = _filtered_df'
            /\ UNCHANGED <<_base_df, _transformed_df, apiVars, browserVars,
                           sessionVars, pluginVars,
                       pivotVars>>

\* PowerQueryModel.sort: sort_values(kind="mergesort") orders the values,
\* keeps rows of equal value in place and puts the missing values last in
\* either order; reset_index(drop=True) renumbers the rows.
sort_values(rows, column, ascending) ==
    SelectSeq(rows, LAMBDA row :
                  row.cells[column] = (IF ascending THEN "x" ELSE "y"))
    \o SelectSeq(rows, LAMBDA row :
                  row.cells[column] = (IF ascending THEN "y" ELSE "x"))
    \o SelectSeq(rows, LAMBDA row : isna(row.cells[column]))

reset_index(rows) == [i \in 1..Len(rows) |-> [rows[i] EXCEPT !.label = i]]

\* A click on a column header of the view (setSortingEnabled): the model
\* sorts its own copy of the dataframe; _filtered_df keeps its order.
Sort ==
    \E column \in Columns(_df), ascending \in BOOLEAN :
        /\ _df' = DataFrame(_df.columns,
                            reset_index(sort_values(_df.rows, column, ascending)))
        /\ UNCHANGED <<_base_df, _transformed_df, _filtered_df, _active_filters,
                       apiVars, browserVars, sessionVars, pluginVars,
                       pivotVars>>

\* What the view shows in the cell at (row, column): PowerQueryModel.data
\* reads the model's _df.
CellShown(row, column) == _df.rows[row].cells[column]

\* _show_cell_menu: the value handed to the entries of the menu opened on
\* the cell at (row, column) of the view is read from _filtered_df.
_show_cell_menu(row, column) == _filtered_df.rows[row].cells[column]

\* _drill_down(column, value)
_drill_down(column, value) ==
    /\ _active_filters' =
          [col \in DOMAIN _active_filters \cup {column} |->
              IF col # column THEN _active_filters[col]
              ELSE IF isna(value) THEN {NULL_SENTINEL}
              ELSE {value}]
    /\ _filtered_df' = _apply_filters(_transformed_df, _active_filters')
    /\ _df' = _filtered_df'
    /\ UNCHANGED <<_base_df, _transformed_df>>

\* 'Manter apenas este valor' on a cell of the view
DrillDown ==
    \E column \in Columns(_transformed_df), row \in 1..Len(_df.rows) :
        /\ _drill_down(column, _show_cell_menu(row, column))
        /\ UNCHANGED <<apiVars, browserVars, sessionVars, pluginVars,
                       pivotVars>>

\* series.dropna().unique()
unique_values(df, column) ==
    {df.rows[i].cells[column] : i \in 1..Len(df.rows)} \ {NaN}

\* _exclude_value(column, value)
_exclude_value(column, value) ==
    /\ _active_filters' =
          [col \in DOMAIN _active_filters \cup {column} |->
              IF col # column THEN _active_filters[col]
              ELSE IF isna(value) THEN unique_values(_transformed_df, column)
              ELSE (unique_values(_transformed_df, column) \ {value})
                   \cup (IF \E i \in 1..Len(_transformed_df.rows) :
                               isna(_transformed_df.rows[i].cells[column])
                         THEN {NULL_SENTINEL} ELSE {})]
    /\ _filtered_df' = _apply_filters(_transformed_df, _active_filters')
    /\ _df' = _filtered_df'
    /\ UNCHANGED <<_base_df, _transformed_df>>

\* 'Remover este valor' on a cell of the view
ExcludeValue ==
    \E column \in Columns(_transformed_df), row \in 1..Len(_df.rows) :
        /\ _exclude_value(column, _show_cell_menu(row, column))
        /\ UNCHANGED <<apiVars, browserVars, sessionVars, pluginVars,
                       pivotVars>>

\* _remove_filter, the x of a badge
RemoveFilter ==
    \E column \in DOMAIN _active_filters :
        /\ _active_filters' = [col \in DOMAIN _active_filters \ {column} |->
                                  _active_filters[col]]
        /\ _filtered_df' = _apply_filters(_transformed_df, _active_filters')
        /\ _df' = _filtered_df'
        /\ UNCHANGED <<_base_df, _transformed_df, apiVars, browserVars,
                       sessionVars, pluginVars,
                       pivotVars>>

\* _duplicate_column
DuplicateColumn ==
    \E column \in Columns(_transformed_df) :
        /\ Len(_transformed_df.columns) < MaxColumns
        /\ _set_transformed_df(
               WithColumn(_transformed_df, column,
                          _unique_column_name(column \o <<"_copia">>, 1,
                                              Columns(_transformed_df))),
               FALSE)
        /\ UNCHANGED <<_base_df, apiVars, browserVars, sessionVars, pluginVars,
                       pivotVars>>

\* _fill_down
FillDown ==
    \E column \in Columns(_transformed_df) :
        /\ _set_transformed_df(
               DataFrame(_transformed_df.columns,
                         ffill(_transformed_df.rows, column, NaN)),
               FALSE)
        /\ UNCHANGED <<_base_df, apiVars, browserVars, sessionVars, pluginVars,
                       pivotVars>>

\* _replace_values, both texts entered
ReplaceValues ==
    \E column \in Columns(_transformed_df), old_value \in {"x", "y"},
       new_value \in {"x", "y"} :
        /\ _set_transformed_df(
               Replaced(_transformed_df, column, old_value, new_value), FALSE)
        /\ UNCHANGED <<_base_df, apiVars, browserVars, sessionVars, pluginVars,
                       pivotVars>>

\* _revert_to_base
RevertToBase ==
    /\ _set_transformed_df(_base_df, TRUE)
    /\ UNCHANGED <<_base_df, apiVars, browserVars, sessionVars, pluginVars,
                       pivotVars>>

(***************************************************************************)
(* pivot_table_widget.py: the pivot widget.  raw_df is a sequence of rows  *)
(* with a text field g and a number field v; a pivot value is a text, an   *)
(* integer or a float kept in hundredths; the items of the table model are *)
(* texts.  The column field stays at '(Nenhum)' and the row and value      *)
(* fields are chosen among '(Nenhum)', g and '(Nenhum)', v.                *)
(***************************************************************************)
TextValue(s) == [t |-> "str", s |-> s]
IntValue(n) == [t |-> "int", n |-> n]
FloatValue(h) == [t |-> "float", h |-> h]

Digit(d) == <<"0", "1", "2", "3", "4", "5", "6", "7", "8", "9">>[d + 1]

\* str(n) for n >= 0
RECURSIVE DigitsOf(_)
DigitsOf(n) == IF n < 10 THEN <<Digit(n)>> ELSE DigitsOf(n \div 10) \o <<Digit(n % 10)>>

\* f"{value:,.2f}" for a value below 1000, given in hundredths
FormatFloat(h) ==
    DigitsOf(h \div 100) \o <<".", Digit((h % 100) \div 10), Digit(h % 10)>>

\* _populate_table: the text of the item made for one pivot value
ItemText(value) ==
    IF value.t = "float" THEN FormatFloat(value.h)
    ELSE IF value.t = "int" THEN DigitsOf(value.n)
    ELSE value.s

EmptyPivot == [columns |-> <<>>, rows |-> <<>>]

RECURSIVE SumOf(_)
SumOf(ns) == IF ns = <<>> THEN 0 ELSE Head(ns) + SumOf(Tail(ns))

MaxOf(ns) == CHOOSE n \in {ns[i] : i \in 1..Len(ns)} : \A i \in 1..Len(ns) : ns[i] <= n

\* Series.agg(agg_func) over whole numbers
Agg(agg_func, ns) ==
    IF agg_func = "count" THEN Len(ns)
    ELSE IF agg_func = "sum" THEN SumOf(ns)
    ELSE MaxOf(ns)

\* df[metric] of the rows of one group, in order
GroupMetric(df, key) ==
    [i \in 1..Len(SelectSeq(df, LAMBDA r : r.g = key)) |->
        SelectSeq(df, LAMBDA r : r.g = key)[i].v]

\* groupby(row_field): the keys in ascending order
RECURSIVE SortedKeys(_)
SortedKeys(keys) ==
    IF keys = {} THEN <<>>
    ELSE <<CHOOSE k \in keys : \A o \in keys \ {k} : TextLess(k, o)>>
         \o SortedKeys(keys \ {CHOOSE k \in keys : \A o \in keys \ {k} : TextLess(k, o)})

\* sort_values(by=header, ascending=False) over rows <<key, value, ...>>
RECURSIVE SortDescending(_)
SortDescending(rows) ==
    IF rows = <<>> THEN <<>>
    ELSE <<rows[CHOOSE i \in 1..Len(rows) :
                    /\ \A j \in 1..Len(rows) : rows[j][2].n <= rows[i][2].n
                    /\ \A j \in 1..(i - 1) : rows[j][2].n < rows[i][2].n]>>
         \o SortDescending(
                SelectSeq(rows, LAMBDA r :
                    r # rows[CHOOSE i \in 1..Len(rows) :
                                /\ \A j \in 1..Len(rows) : rows[j][2].n <= rows[i][2].n
                                /\ \A j \in 1..(i - 1) : rows[j][2].n < rows[i][2].n]))

\* (pivot[header] / total * 100).round(2), in hundredths
Percent(n, total) == FloatValue((2 * n * 10000 + total) \div (2 * total))

\* f"{agg_func.upper()}({metric})"
Header(agg_func, metric) ==
    <<IF agg_func = "sum" THEN "SUM" ELSE IF agg_func = "count" THEN "COUNT" ELSE "MAX",
      "(", metric, ")">>

\* The grouped frame before the percentage column: one row per key.
Grouped(df, agg_func) ==
    [i \in 1..Len(SortedKeys({df[k].g : k \in 1..Len(df)})) |->
        <<TextValue(SortedKeys({df[k].g : k \in 1..Len(df)})[i]),
          IntValue(Agg(agg_func,
                       GroupMetric(df, SortedKeys({df[k].g : k \in 1..Len(df)})[i])))>>]

\* total = pivot[header].sum()
GroupTotal(df, agg_func) ==
    SumOf([i \in 1..Len(Grouped(df, agg_func)) |-> Grouped(df, agg_func)[i][2].n])

WithPercent(rows, total) ==
    [i \in 1..Len(rows) |-> Append(rows[i], Percent(rows[i][2].n, total))]

\* _compute_pivot with the column field empty
_compute_pivot(df, metric, row_field, agg_func) ==
    IF df = <<>> \/ metric = None THEN EmptyPivot
    ELSE IF row_field = None
    THEN [columns |-> << <<"Indicador">>, <<"Valor">> >>,
          rows |-> << <<TextValue(<<Val(metric)>>),
                        IF agg_func = "count"
                        THEN IntValue(Len(df))
                        ELSE FloatValue(100 * Agg(agg_func, [i \in 1..Len(df) |-> df[i].v]))>> >>]
    ELSE IF agg_func \in {"sum", "count"} /\ GroupTotal(df, agg_func) # 0
    THEN [columns |-> << <<Val(row_field)>>, Header(agg_func, Val(metric)), <<"% do total">> >>,
          rows |-> SortDescending(
                       WithPercent(Grouped(df, agg_func), GroupTotal(df, agg_func)))]
    ELSE [columns |-> << <<Val(row_field)>>, Header(agg_func, Val(metric)) >>,
          rows |-> SortDescending(Grouped(df, agg_func))]

\* _populate_table: the headers and the items of table_model
ItemsOf(pivot) ==
    IF pivot.rows = <<>>
    THEN [headers |-> << <<"Nenhum resultado">> >>, rows |-> <<>>]
    ELSE [headers |-> pivot.columns,
          rows |-> [i \in 1..Len(pivot.rows) |->
                       [c \in 1..Len(pivot.rows[i]) |-> ItemText(pivot.rows[i][c])]]]

\* QRegExp(text, Qt.CaseInsensitive, QRegExp.FixedString).indexIn(value) != -1
IndexIn(text, value) ==
    \E i \in 1..(Len(value) - Len(text) + 1) :
        Lower(SubSeq(value, i, i + Len(text) - 1)) = Lower(text)

\* _PivotFilterProxy.filterAcceptsRow; columns are numbered from 0
filterAcceptsRow(model, global, filters, source_row) ==
    /\ IF global = <<>> THEN TRUE
       ELSE \E col \in 0..(Len(model.headers) - 1) :
               IndexIn(global, model.rows[source_row][col + 1])
    /\ \A col \in DOMAIN filters :
          IF col >= Len(model.headers) THEN TRUE
          ELSE IndexIn(filters[col], model.rows[source_row][col + 1])

\* The source rows the proxy maps after invalidate() or invalidateFilter()
Accepted(model, global, filters) ==
    {r \in 1..Len(model.rows) : filterAcceptsRow(model, global, filters, r)}

NoColumnFilters == [col \in {} |-> <<>>]

\* PivotTableWidget.__init__
PivotIdle ==
    /\ raw_df = <<>>
    /\ row_field_combo = None
    /\ value_field_combo = None
    /\ agg_combo = "sum"
    /\ pivot_df = EmptyPivot
    /\ table_model = [headers |-> <<>>, rows |-> <<>>]
    /\ search_input = <<>>
    /\ column_filter_editors = <<>>
    /\ _global_regexp = <<>>
    /\ _column_filters = NoColumnFilters
    /\ proxy_rows = {}

\* refresh: _apply_filters, _compute_pivot, then _populate_table with
\* _rebuild_column_filters, which makes one empty box per header.
refresh(df, row_field, metric, agg_func, global, filters) ==
    /\ pivot_df' = _compute_pivot(df, metric, row_field, agg_func)
    /\ table_model' = ItemsOf(pivot_df')
    /\ column_filter_editors' =
          [i \in 1..(IF pivot_df'.rows = <<>> THEN 0 ELSE Len(pivot_df'.columns)) |-> <<>>]
    /\ proxy_rows' = Accepted(table_model', global, filters)

\* The summaries handed to set_summary_data.
RawFrames ==
    { << [g |-> <<"a">>, v |-> 1], [g |-> <<"b">>, v |-> 3], [g |-> <<"a">>, v |-> 1] >>,
      << [g |-> <<"b">>, v |-> 1], [g |-> <<"c">>, v |-> 1], [g |-> <<"c">>, v |-> 2] >> }

\* The texts typed into the search box and into the filter boxes.
SearchTexts == {<<>>, <<"3">>}
FilterTexts == {<<>>, <<"A">>}

\* set_summary_data: _populate_field_panel selects the first text column
\* as row field and the first numeric column as value field.
SetSummaryData ==
    \E df \in RawFrames :
        /\ raw_df' = df
        /\ row_field_combo' = Some("g")
        /\ value_field_combo' = Some("v")
        /\ refresh(df, Some("g"), Some("v"), agg_combo, _global_regexp, _column_filters)
        /\ UNCHANGED <<agg_combo, search_input, _global_regexp, _column_filters,
                       apiVars, browserVars, sessionVars, pluginVars, queryVars>>

\* _maybe_refresh after a combo changed, auto_on the state of the check box
RowFieldChanged ==
    \E choice \in {None, Some("g")}, auto_on \in BOOLEAN :
        /\ raw_df # <<>>
        /\ choice # row_field_combo
        /\ row_field_combo' = choice
        /\ IF auto_on
           THEN refresh(raw_df, choice, value_field_combo, agg_combo,
                        _global_regexp, _column_filters)
           ELSE UNCHANGED <<pivot_df, table_model, column_filter_editors, proxy_rows>>
        /\ UNCHANGED <<raw_df, value_field_combo, agg_combo, search_input,
                       _global_regexp, _column_filters,
                       apiVars, browserVars, sessionVars, pluginVars, queryVars>>

ValueFieldChanged ==
    \E choice \in {None, Some("v")}, auto_on \in BOOLEAN :
        /\ raw_df # <<>>
        /\ choice # value_field_combo
        /\ value_field_combo' = choice
        /\ IF auto_on
           THEN refresh(raw_df, row_field_combo, choice, agg_combo,
                        _global_regexp, _column_filters)
           ELSE UNCHANGED <<pivot_df, table_model, column_filter_editors, proxy_rows>>
        /\ UNCHANGED <<raw_df, row_field_combo, agg_combo, search_input,
                       _global_regexp, _column_filters,
                       apiVars, browserVars, sessionVars, pluginVars, queryVars>>

AggChanged ==
    \E choice \in {"sum", "count", "max"}, auto_on \in BOOLEAN :
        /\ choice # agg_combo
        /\ agg_combo' = choice
        /\ IF auto_on
           THEN refresh(raw_df, row_field_combo, value_field_combo, choice,
                        _global_regexp, _column_filters)
           ELSE UNCHANGED <<pivot_df, table_model, column_filter_editors, proxy_rows>>
        /\ UNCHANGED <<raw_df, row_field_combo, value_field_combo, search_input,
                       _global_regexp, _column_filters,
                       apiVars, browserVars, sessionVars, pluginVars, queryVars>>

\* The button 'Atualizar'
PivotRefresh ==
    /\ refresh(raw_df, row_field_combo, value_field_combo, agg_combo,
               _global_regexp, _column_filters)
    /\ UNCHANGED <<raw_df, row_field_combo, value_field_combo, agg_combo,
                   search_input, _global_regexp, _column_filters,
                   apiVars, browserVars, sessionVars, pluginVars, queryVars>>

\* _on_search_text_changed: set_global_filter and invalidateFilter
SearchTextChanged ==
    \E text \in SearchTexts :
        /\ text # search_input
        /\ search_input' = text
        /\ _global_regexp' = text
        /\ proxy_rows' = Accepted(table_model, text, _column_filters)
        /\ UNCHANGED <<raw_df, row_field_combo, value_field_combo, agg_combo,
                       pivot_df, table_model, column_filter_editors, _column_filters,
                       apiVars, browserVars, sessionVars, pluginVars, queryVars>>

\* _PivotFilterProxy.set_column_filter
set_column_filter(filters, column, text) ==
    IF text = <<>>
    THEN [col \in DOMAIN filters \ {column} |-> filters[col]]
    ELSE [col \in DOMAIN filters \cup {column} |->
             IF col = column THEN text ELSE filters[col]]

\* _on_column_filter_changed, text typed into the box of one column
ColumnFilterChanged ==
    \E column \in 0..(Len(column_filter_editors) - 1), text \in FilterTexts :
        /\ text # column_filter_editors[column + 1]
        /\ column_filter_editors' = [column_filter_editors EXCEPT ![column + 1] = text]
        /\ _column_filters' = set_column_filter(_column_filters, column, text)
        /\ proxy_rows' = Accepted(table_model, _global_regexp, _column_filters')
        /\ UNCHANGED <<raw_df, row_field_combo, value_field_combo, agg_combo,
                       pivot_df, table_model, search_input, _global_regexp,
                       apiVars, browserVars, sessionVars, pluginVars, queryVars>>

\* _clear_filters: the boxes, the filters of the proxy and the field
\* combos are reset, then refresh
ClearFilters ==
    /\ search_input' = <<>>
    /\ _global_regexp' = <<>>
    /\ _column_filters' = NoColumnFilters
    /\ row_field_combo' = None
    /\ value_field_combo' = None
    /\ refresh(raw_df, None, None, agg_combo, <<>>, NoColumnFilters)
    /\ UNCHANGED <<raw_df, agg_combo,
                   apiVars, browserVars, sessionVars, pluginVars, queryVars>>

(***************************************************************************)
(* The cloud API as a whole.                                               *)
(***************************************************************************)
NoResponse == Response("none", NoBody, 0, "", NoBody)

\* The database after db_init.main(), with or without an ordinary user.
InitApi ==
    /\ users \in {{AdminUser}, {AdminUser, RegularUser}}
    /\ layers = LAYER_SEEDS
    /\ files = {}
    /\ now = 0
    /\ nextLayerId = 4
    /\ nextUuid = 1
    /\ inflight = {}
    /\ resp = NoResponse

Init ==
    /\ InitApi
    /\ BrowserIdle
    /\ SessionIdle
    /\ PluginIdle /\ registryAvailable = TRUE
    /\ QueryIdle
    /\ PivotIdle

\* Every endpoint, called with every token.
Next ==
    \/ Tick
    \/ Login
    \/ GetMe(Tokens(now))
    \/ ListLayers(Tokens(now))
    \/ CreateUser(Tokens(now))
    \/ UploadBegin(Tokens(now), {FormGood, FormZip})
    \/ UploadFinish

Spec == Init /\ [][Next]_vars

(***************************************************************************)
(* The admin endpoints, called by the administrator, by an ordinary user   *)
(* and with a forged token, with every upload form.                        *)
(***************************************************************************)
AdminTokens == {create_access_token(Str(1), 0), create_access_token(Str(2), 0),
                [payload |-> ForgedPayload, sig |-> Sign(ForgedPayload, "guess")]}

InitAdmin ==
    /\ users = {AdminUser, RegularUser}
    /\ layers = LAYER_SEEDS
    /\ files = {}
    /\ now = 0
    /\ nextLayerId = 4
    /\ nextUuid = 1
    /\ inflight = {}
    /\ resp = NoResponse
    /\ BrowserIdle
    /\ SessionIdle
    /\ PluginIdle /\ registryAvailable = TRUE
    /\ QueryIdle
    /\ PivotIdle

NextAdmin ==
    \/ CreateUser(AdminTokens)
    \/ UploadBegin(AdminTokens, UploadForms)
    \/ UploadFinish
    \/ ListLayers(AdminTokens)

SpecAdmin == InitAdmin /\ [][NextAdmin]_vars

(***************************************************************************)
(* Downloads from a layers table whose gpkg row holds any uri.             *)
(***************************************************************************)
UriSegments == {<<"..">>, <<"a">>, <<"data">>, <<"gpkg">>}

UriSpace ==
    {Path(isAbs, segs) : isAbs \in BOOLEAN,
                         segs \in UNION {[1..n -> UriSegments] : n \in 0..MaxUriLen}}

DiskFiles ==
    { << <<"data">>, <<"gpkg">>, <<"a">> >>, << <<"data">>, <<"a">> >>,
      << <<"a">> >>, << <<"gpkg">>, <<"a">> >>, << <<"data">>, <<"gpkg">>, <<"gpkg">> >> }

InitDownload ==
    /\ users = {AdminUser, RegularUser}
    /\ \E uri \in {None} \cup {Some(u) : u \in UriSpace} :
          layers = {LayerRow(1, <<"a", "a">>, "postgis", None, Some("public"),
                             Some(31984), Some("POINT"), Some(1)),
                    LayerRow(4, <<"b">>, "gpkg", uri, Some("public"), Some(4326),
                             Some("POINT"), Some(1))}
    /\ files = DiskFiles
    /\ now = MaxTicks * TickSeconds
    /\ nextLayerId = 5
    /\ nextUuid = 1
    /\ inflight = {}
    /\ resp = NoResponse
    /\ BrowserIdle
    /\ SessionIdle
    /\ PluginIdle /\ registryAvailable = TRUE
    /\ QueryIdle
    /\ PivotIdle

NextDownload == DownloadLayerGpkg

SpecDownload == InitDownload /\ [][NextDownload]_vars

(***************************************************************************)
(* The Browser node and the registry behind it.                            *)
(***************************************************************************)
InitBrowser ==
    /\ saved \in {<<>>, <<_sanitize(SavedPg)>>}
    /\ runtime = <<>>
    /\ children = createChildren(saved, runtime)
    /\ users = {AdminUser, RegularUser}
    /\ layers = LAYER_SEEDS
    /\ files = {}
    /\ now = 0
    /\ nextLayerId = 4
    /\ nextUuid = 1
    /\ inflight = {}
    /\ resp = NoResponse
    /\ SessionIdle
    /\ PluginIdle /\ registryAvailable = TRUE
    /\ QueryIdle
    /\ PivotIdle

NextBrowser ==
    \/ ReplaceSavedConnections
    \/ RegisterRuntimeConnection
    \/ RemoveConnection
    \/ Refresh

SpecBrowser == InitBrowser /\ [][NextBrowser]_vars

(***************************************************************************)
(* The client session in front of the API.                                 *)
(***************************************************************************)
\* A layer row written by an earlier upload.
UploadedLayer ==
    LayerRow(4, <<"b">>, "gpkg", Some(Path(FALSE, << <<"gpkg">>, <<"a">> >>)),
             Some("public"), Some(4326), Some("POINT"), Some(1))

InitSession ==
    /\ users = {AdminUser, RegularUser}
    /\ layers = LAYER_SEEDS \cup {UploadedLayer}
    /\ files = {<< <<"data">>, <<"gpkg">>, <<"gpkg">>, <<"a">> >>}
    /\ now = 0
    /\ nextLayerId = 5
    /\ nextUuid = 1
    /\ inflight = {}
    /\ resp = NoResponse
    /\ BrowserIdle
    /\ SessionIdle
    /\ PluginIdle /\ registryAvailable = TRUE
    /\ QueryIdle
    /\ PivotIdle

NextSession ==
    \/ Tick
    \/ SessionLogin
    \/ HandleLogin
    \/ Logout
    \/ UpdateConfig
    \/ ReloadMockLayers
    \/ DeleteLayer

SpecSession == InitSession /\ [][NextSession]_vars

(***************************************************************************)
(* The admin actions of the client, from a session that a login at time 0  *)
(* left, with and without saved credentials.                               *)
(***************************************************************************)
IdleSession ==
    [session |-> None, persisted |-> None, connections |-> MockConnections,
     isReloading |-> FALSE, emitted |-> <<>>]

LoggedIn(cfg, input) ==
    cloud_session_login(IdleSession,
                        [config |-> cfg, credentials |-> None, net |-> "api",
                         users |-> {AdminUser, RegularUser},
                         layers |-> LAYER_SEEDS \cup {UploadedLayer}, now |-> 0],
                        input[1], input[2]).st

InitClient ==
    /\ users = {AdminUser, RegularUser}
    /\ layers = LAYER_SEEDS \cup {UploadedLayer}
    /\ files = {<< <<"data">>, <<"gpkg">>, <<"gpkg">>, <<"a">> >>}
    /\ now = 0
    /\ nextLayerId = 5
    /\ nextUuid = 1
    /\ inflight = {}
    /\ resp = NoResponse
    /\ BrowserIdle
    /\ PluginIdle /\ registryAvailable = TRUE
    /\ QueryIdle
    /\ PivotIdle
    /\ config \in {[hosting_ready |-> FALSE], [hosting_ready |-> TRUE]}
    /\ credentials \in {None, Some(<<ADMIN_EMAIL, ADMIN_PASSWORD>>),
                        Some(<<USER_EMAIL, "pw">>)}
    /\ \E input \in {<<ADMIN_EMAIL, ADMIN_PASSWORD>>, <<USER_EMAIL, "pw">>} :
          /\ session = LoggedIn(config, input).session
          /\ persisted = LoggedIn(config, input).persisted
          /\ connections = LoggedIn(config, input).connections
    /\ isReloading = FALSE
    /\ emitted = <<>>
    /\ lastCall = [op |-> "none"]

NextClient ==
    \/ Tick
    \/ Logout
    \/ UpdateConfig
    \/ CreateCloudUser
    \/ CreateCloudUserClicked
    \/ HandleUploadLayer
    \/ OpenCloudUploadTab

SpecClient == InitClient /\ [][NextClient]_vars

(***************************************************************************)
(* One call of reload_mock_layers in steps: the body up to the emission of *)
(* layersChanged, the listeners of the signal, which may call              *)
(* reload_mock_layers themselves, and the finally clause.                  *)
(***************************************************************************)
ReloadEmit ==
    \E net \in Remotes :
        /\ ~isReloading
        /\ Store(ReloadEmitted(SessionObject, Environment(net)))
        /\ lastCall' = [op |-> "reload_emit", net |-> net]
        /\ UNCHANGED <<config, credentials, apiVars, browserVars, pluginVars, queryVars, pivotVars>>

\* A slot connected to layersChanged or sessionChanged calls
\* reload_mock_layers while the outer call is still inside its try block.
ListenerReload ==
    \E net \in Remotes :
        /\ isReloading
        /\ Store(reload_mock_layers([SessionObject EXCEPT !.emitted = emitted],
                                    Environment(net)))
        /\ lastCall' = [op |-> "listener_reload", net |-> net]
        /\ UNCHANGED <<config, credentials, apiVars, browserVars, pluginVars, queryVars, pivotVars>>

\* finally: the flag is reset whether emit returned or a slot raised.
ReloadReturn ==
    \E raised \in {"none", "Exception"} :
        /\ isReloading
        /\ isReloading' = FALSE
        /\ lastCall' = [op |-> "reload_return", raised |-> raised]
        /\ UNCHANGED <<session, persisted, connections, emitted, config,
                       credentials, apiVars, browserVars, pluginVars, queryVars, pivotVars>>

NextReload ==
    \/ Tick
    \/ ReloadEmit
    \/ ListenerReload
    \/ ReloadReturn

SpecReload == InitClient /\ [][NextReload]_vars

(***************************************************************************)
(* The Power Query table under the user's commands.                        *)
(***************************************************************************)
InitQuery ==
    /\ users = {AdminUser}
    /\ layers = LAYER_SEEDS
    /\ files = {}
    /\ now = 0
    /\ nextLayerId = 4
    /\ nextUuid = 1
    /\ inflight = {}
    /\ resp = NoResponse
    /\ BrowserIdle
    /\ SessionIdle
    /\ PluginIdle /\ registryAvailable = TRUE
    /\ QueryIdle
    /\ PivotIdle

NextQuery ==
    \/ SetDataframe
    \/ FilterValues
    \/ DrillDown
    \/ ExcludeValue
    \/ Sort
    \/ RemoveFilter
    \/ DuplicateColumn
    \/ FillDown
    \/ ReplaceValues
    \/ RevertToBase

SpecQuery == InitQuery /\ [][NextQuery]_vars

(***************************************************************************)
(* The pivot widget under the user's commands and new summaries.           *)
(***************************************************************************)
NextPivot ==
    \/ SetSummaryData
    \/ RowFieldChanged
    \/ ValueFieldChanged
    \/ AggChanged
    \/ PivotRefresh
    \/ SearchTextChanged
    \/ ColumnFilterChanged
    \/ ClearFilters

SpecPivot == InitQuery /\ [][NextPivot]_vars

(***************************************************************************)
(* The plugin object, driven by QGIS (initGui, unload in any order) and by *)
(* the user, in a QGIS with and without a data item provider registry.     *)
(***************************************************************************)
InitPlugin ==
    /\ users = {AdminUser}
    /\ layers = LAYER_SEEDS
    /\ files = {}
    /\ now = 0
    /\ nextLayerId = 4
    /\ nextUuid = 1
    /\ inflight = {}
    /\ resp = NoResponse
    /\ BrowserIdle
    /\ SessionIdle
    /\ PluginIdle
    /\ registryAvailable \in BOOLEAN
    /\ QueryIdle
    /\ PivotIdle

NextPlugin ==
    \/ initGui
    \/ unload
    \/ run
    \/ open_integration_dialog
    \/ CloseDialog

SpecPlugin == InitPlugin /\ [][NextPlugin]_vars

(***************************************************************************)
(* Properties of the cloud API.                                            *)
(***************************************************************************)
\* A token signed with the secret, not expired at time t, whose subject is
\* the id of a row of the users table.
TokenIsValid(tok, us, t) ==
    /\ tok.sig = Sign(tok.payload, JWT_SECRET)
    /\ ~IsNone(tok.payload.exp) /\ Val(tok.payload.exp) >= t
    /\ ~IsNone(tok.payload.sub)
    /\ \E u \in us : Val(tok.payload.sub) = Str(u.id)

TokenUser(tok, us) == CHOOSE u \in us : Val(tok.payload.sub) = Str(u.id)

\* The stored users the submitted e-mail and password belong to.
CredentialsMatch(us, req) ==
    {u \in us : /\ u.email = req.email
                /\ u.password_hash = hash_password(req.password, u.password_hash.salt)}

LoginIssuesTokenIffCredentials ==
    resp.ep = "login" =>
        LET match == CredentialsMatch(users, resp.req) IN
        /\ resp.body.kind = "token" <=> match # {}
        /\ match # {} =>
              /\ resp.status = 200
              /\ resp.body.token_type = "bearer"
              /\ resp.body.expires_in = JWT_EXPIRES
              /\ resp.body.access_token.sig =
                     Sign(resp.body.access_token.payload, JWT_SECRET)
              /\ \E u \in match : resp.body.access_token.payload.sub = Some(Str(u.id))

\* C1 as stated: /login answers with a token exactly when the e-mail is a
\* stored user's and the password verifies against that user's hash, and in
\* every other case it answers 401 'Invalid email or password' with no token.
C1_LoginTokenOr401 ==
    /\ LoginIssuesTokenIffCredentials
    /\ (resp.ep = "login" /\ CredentialsMatch(users, resp.req) = {}) =>
          /\ resp.status = 401
          /\ resp.detail = "Invalid email or password"
          /\ resp.body = NoBody

\* C1 amended: /login answers with a token (bearer, expires_in JWT_EXPIRES,
\* subject the user's id) exactly when the e-mail is a stored user's and the
\* password verifies; otherwise it issues no token and answers 422 when the
\* e-mail does not match the LoginRequest format, 401 'Invalid email or
\* password' when it does.
C1_LoginTokenOr401Or422 ==
    /\ LoginIssuesTokenIffCredentials
    /\ (resp.ep = "login" /\ CredentialsMatch(users, resp.req) = {}) =>
          /\ resp.body = NoBody
          /\ IF EmailRegexMatch(resp.req.email)
             THEN resp.status = 401 /\ resp.detail = "Invalid email or password"
             ELSE resp.status = 422

C1_Witness ==
    /\ resp.ep = "login"
    /\ resp.body.kind = "token"
    /\ resp.req.email = USER_EMAIL

\* The first part of a handler answered (not the end of a suspended upload).
IsFinish(r) == r.ep = "upload" /\ "target" \in DOMAIN r.req

ProtectedEndpoints == {"me", "layers", "create-user", "upload"}

C3_AdminEndpointsRejectNonAdmins ==
    [][ /\ ( /\ resp' # resp
             /\ resp'.ep \in {"create-user", "upload"}
             /\ ~IsFinish(resp')
             /\ TokenIsValid(resp'.req.token, users, now)
             /\ TokenUser(resp'.req.token, users).role # "admin" ) =>
                 /\ resp'.status = 403
                 /\ resp'.body = NoBody
                 /\ UNCHANGED <<users, layers, files, inflight>>
        /\ \A call \in inflight' \ inflight :
              TokenUser(call.token, users).role = "admin"
        /\ \A row \in layers' \ layers :
              \E u \in users : Some(u.id) = row.created_by_user_id /\ u.role = "admin"
      ]_vars

C3_Witness ==
    /\ resp.ep = "upload"
    /\ resp.status = 403
    /\ resp.req.form = FormGood

\* C4: when an admin calls /admin/create-user with an e-mail no stored user
\* has, the answer is 201, exactly one new user exists with that e-mail, a
\* hash of the password and role 'user', and a login with that e-mail and
\* password then returns a token.
C4_CreateUserCreatesLoginableUser ==
    [][ ( /\ resp' # resp
          /\ resp'.ep = "create-user"
          /\ TokenIsValid(resp'.req.token, users, now)
          /\ TokenUser(resp'.req.token, users).role = "admin"
          /\ \A u \in users : u.email # resp'.req.email ) =>
              /\ resp'.status = 201
              /\ \E u \in users' \ users :
                    /\ users' = users \cup {u}
                    /\ u.email = resp'.req.email
                    /\ u.role = "user"
                    /\ u.password_hash =
                           hash_password(resp'.req.password, u.password_hash.salt)
              /\ login(users', resp'.req.email, resp'.req.password, now).status = 200
      ]_vars

\* What a GeoPackage declares: its first geometry column and the SRID of it
\* (the EPSG code of its reference system, else the srs_id itself).
HasGeometryTable(content) ==
    /\ content.readable
    /\ content.rows # <<>>
    /\ ~IsNone(content.rows[1].column)
    /\ ~IsNone(content.rows[1].gtype)

DeclaredSrid(content) ==
    LET row == content.rows[1] IN
    IF row.org \in {Some("EPSG"), Some("epsg")} /\ ~IsNone(row.org_srid)
    THEN row.org_srid
    ELSE row.srs_id

\* The SRID can be determined: the file declares one or the form gives one,
\* and the two agree when both are there.
DeterminableSrid(form) ==
    /\ ~IsNone(DeclaredSrid(form.content)) \/ ~IsNone(form.epsg)
    /\ (~IsNone(DeclaredSrid(form.content)) /\ ~IsNone(form.epsg)) =>
           DeclaredSrid(form.content) = form.epsg

InsideUploadDir(segs) ==
    /\ Len(segs) > Len(UPLOAD_DIR.segs)
    /\ SubSeq(segs, 1, Len(UPLOAD_DIR.segs)) = UPLOAD_DIR.segs

\* C5: an admin's upload of a .gpkg with a geometry table and a determinable
\* SRID, under a name that admin has not used yet, stores the file under
\* UPLOAD_DIR, inserts exactly one layer row with provider 'gpkg' and answers
\* 201 with a body that conforms to LayerOut.
C5_GoodUploadAnswers201 ==
    [][ ( /\ resp' # resp
          /\ IsFinish(resp')
          /\ HasGeometryTable(resp'.req.form.content)
          /\ DeterminableSrid(resp'.req.form)
          /\ ~\E row \in layers :
                SameLayerKey(row, resp'.req.name, "gpkg", Some(resp'.req.user_id)) ) =>
              /\ resp'.status = 201
              /\ resp'.req.target \in files' /\ InsideUploadDir(resp'.req.target)
              /\ \E row \in layers' \ layers :
                    /\ layers' = layers \cup {row}
                    /\ row.provider = "gpkg"
                    /\ resp'.body = [kind |-> "layer", layer |-> LayerOut(row)]
                    /\ ~IsNone(row.schema) /\ ~IsNone(row.srid) /\ ~IsNone(row.geom_type)
      ]_vars

\* C6: GET /layers with a valid token returns every stored layer, ordered by
\* name ascending, to any authenticated user, the layers created through
\* /admin/upload-layer-gpkg included.
C6_ListLayersReturnsEveryLayer ==
    [][ ( /\ resp' # resp
          /\ resp'.ep = "layers"
          /\ TokenIsValid(resp'.req.token, users, now) ) =>
              /\ resp'.status = 200
              /\ resp'.body.kind = "layers"
              /\ {resp'.body.items[i].id : i \in 1..Len(resp'.body.items)}
                     = {row.id : row \in layers}
              /\ Len(resp'.body.items) = Cardinality(layers)
              /\ \A i \in 1..Len(resp'.body.items) - 1 :
                    TextLeq(resp'.body.items[i].name, resp'.body.items[i + 1].name)
      ]_vars

\* The bearer token of the Authorization header and the ?token= parameter.
SuppliedTokens(req) ==
    (IF ~IsNone(req.header) /\ Val(req.header).scheme \in {"Bearer", "bearer", "BEARER"}
        /\ ~IsNone(Val(req.header).credentials)
     THEN {Val(Val(req.header).credentials)} ELSE {})
    \cup (IF IsNone(req.token) THEN {} ELSE {Val(req.token)})

\* C7: download-gpkg returns a file only to a request that supplies a valid
\* token of an existing user, in the Authorization Bearer header or in
\* ?token=; a request that supplies no valid token gets 401 whatever the
\* layer id, so the answer does not tell whether the layer or its file exists.
C7_DownloadNeedsValidToken ==
    resp.ep = "download" =>
        /\ resp.body.kind = "file" =>
              \E tok \in SuppliedTokens(resp.req) : TokenIsValid(tok, users, now)
        /\ (\A tok \in SuppliedTokens(resp.req) : ~TokenIsValid(tok, users, now)) =>
              /\ resp.status = 401
              /\ resp.detail = CREDENTIALS_DETAIL
              /\ resp.body = NoBody

GpkgRow == CHOOSE row \in layers : row.id = 4

C7_Witness ==
    /\ resp.ep = "download"
    /\ resp.status = 401
    /\ resp.req.layer_id = 4
    /\ GpkgRow.uri = Some(Path(FALSE, << <<"a">> >>))
    /\ resp.req.token = Some(create_access_token(Str(2), 0))

\* C8: whatever the uri of a layer row holds, download-gpkg sends a file
\* whose resolved path lies inside the resolved UPLOAD_DIR, or no file at all
\* (400 'Caminho do arquivo invalido.' for a path that leaves UPLOAD_DIR).
C8_DownloadStaysInsideUploadDir ==
    resp.ep = "download" =>
        /\ resp.body.kind = "file" =>
              /\ InsideUploadDir(resp.body.path.segs)
              /\ resp.body.path.segs \in files
        /\ ( /\ resp.status # 401
             /\ resp.req.layer_id = 4
             /\ ~IsNone(GpkgRow.uri) /\ Val(GpkgRow.uri).segs # <<>>
             /\ LET reached == OsResolve(PathJoin(UPLOAD_DIR, Val(GpkgRow.uri))).segs IN
                reached # UPLOAD_DIR.segs /\ ~InsideUploadDir(reached) ) =>
                 /\ resp.status = 400
                 /\ resp.detail = "Caminho do arquivo invalido."
                 /\ resp.body = NoBody

C8_Witness ==
    /\ resp.ep = "download"
    /\ resp.status = 400
    /\ GpkgRow.uri = Some(Path(FALSE, << <<"..">>, <<"a">> >>))

(***************************************************************************)
(* Properties of the Browser node.                                         *)
(***************************************************************************)
Entries(list) == {list[i] : i \in 1..Len(list)}

\* The entry the registry holds for a fingerprint: the saved one (the last
\* saved one) when there is any, else the runtime one.
EntryOf(fp) ==
    IF HasKey(saved, fp)
    THEN saved[CHOOSE i \in 1..Len(saved) :
                  /\ saved[i].fingerprint = fp
                  /\ \A j \in i + 1..Len(saved) : saved[j].fingerprint # fp]
    ELSE CHOOSE c \in Entries(runtime) : c.fingerprint = fp

SupportedFingerprints ==
    {c.fingerprint : c \in {e \in Entries(saved) \cup Entries(runtime) :
                               Lower(Strip(EntryOf(e.fingerprint).driver))
                                   \in SUPPORTED_DRIVERS}}

\* C9: the children of the Browser node are the Cloud node followed by
\* exactly one connection item for each distinct fingerprint among the saved
\* and runtime connections whose driver is supported, the saved entry
\* winning, and the placeholder is on show exactly when there is none.
C9_BrowserNodeMirrorsRegistry ==
    LET items == {i \in 2..Len(children) : children[i].kind = "connection"} IN
    /\ Len(children) >= 2
    /\ children[1] = CloudRootItem
    /\ \A i \in 2..Len(children) : children[i].kind \in {"connection", "placeholder"}
    /\ {children[i].meta.fingerprint : i \in items} = SupportedFingerprints
    /\ Cardinality(items) = Cardinality(SupportedFingerprints)
    /\ \A i \in items : children[i].meta = EntryOf(children[i].meta.fingerprint)
    /\ (\E i \in 2..Len(children) : children[i].kind = "placeholder")
           <=> SupportedFingerprints = {}

(***************************************************************************)
(* Properties of the client session.                                       *)
(***************************************************************************)
\* C10: login raises ValueError when the trimmed user name or the password
\* is empty, and whenever login raises, the session in memory, the persisted
\* session and the layer catalog are unchanged and neither sessionChanged
\* nor layersChanged is emitted.
C10_FailedLoginChangesNothing ==
    [][ (lastCall'.op = "login" /\ now' = now) =>
          /\ (Strip(lastCall'.username) = <<>> \/ lastCall'.password = "") =>
                 lastCall'.raised = "ValueError"
          /\ lastCall'.raised # "none" =>
                 /\ session' = session
                 /\ persisted' = persisted
                 /\ connections' = connections
                 /\ \A i \in 1..Len(emitted') :
                        emitted'[i] \notin {"sessionChanged", "layersChanged"}
      ]_vars

(***************************************************************************)
(* Properties of the plugin object.                                        *)
(***************************************************************************)
\* C11: whatever the sequence of initGui and unload calls, at most one
\* Browser provider is registered, and when unload has returned neither the
\* provider nor any action of the plugin is registered with QGIS (plugin
\* menu, toolbar, data item provider registry).
C11_UnloadLeavesNothingRegistered ==
    /\ Len(providers) <= 1
    /\ pluginCall = "unload" =>
          /\ providers = <<>>
          /\ menu = {}
          /\ toolbar = {}

\* unload has returned after initGui ran at least twice, in a QGIS that has
\* a registry
C11_Witness ==
    /\ pluginCall = "unload"
    /\ registryAvailable
    /\ Len(actions) >= 4

(***************************************************************************)
(* Properties of the upload handler.                                       *)
(***************************************************************************)
\* C12: when /admin/upload-layer-gpkg fails after it has started writing the
\* file, the transaction is rolled back and the file deleted: the step that
\* answers anything but 201 leaves the layers table as it was and no file
\* at the path it was writing.
C12_FailedUploadLeavesNothing ==
    [][ ( /\ resp' # resp
          /\ IsFinish(resp')
          /\ resp'.status # 201 ) =>
              /\ layers' = layers
              /\ resp'.req.target \notin files'
      ]_vars

(***************************************************************************)
(* Properties of the client session.                                       *)
(***************************************************************************)
\* C13: when an authenticated admin confirms 'Deletar Camada' on a remote
\* GPKG layer, either the client has sent DELETE /layers/{id} with its
\* token, the API has removed the row, the reloaded catalog no longer lists
\* the layer and the success message is shown, or something failed (the API
\* was not reached, or no valid token could be presented), the layer is
\* still listed and a failure message is shown.
C13_DeleteLayerAnswersTheUser ==
    [][ lastCall'.op = "delete_layer" =>
          \/ /\ lastCall'.message = "information"
             /\ ~IsNone(lastCall'.request)
             /\ Val(lastCall'.request).method = "DELETE"
             /\ Some(Val(lastCall'.request).token) = Val(session').token
             /\ ~\E row \in layers' : row.id = lastCall'.layer_id
             /\ ~\E i \in 1..Len(connections'.layers) :
                    connections'.layers[i] = lastCall'.layer_id
          \/ /\ lastCall'.message = "warning"
             /\ IF IsNone(lastCall'.request) THEN TRUE ELSE lastCall'.net # "api"
             /\ \E row \in layers' : row.id = lastCall'.layer_id
             /\ \E i \in 1..Len(connections'.layers) :
                    connections'.layers[i] = lastCall'.layer_id
      ]_vars

(***************************************************************************)
(* C14.                                                                    *)
(***************************************************************************)
\* The expiry a token carries has passed at time t.
TokenExpired(token, t) ==
    IF token.type # "str" THEN FALSE
    ELSE IF IsNone(token.jwt) THEN FALSE
    ELSE IF IsNone(Val(token.jwt).payload.exp) THEN FALSE
    ELSE Val(Val(token.jwt).payload.exp) <= t

\* The session holds no usable token: none, or one past its expiry.
SessionTokenGone(sessionOpt, t) ==
    IF IsNone(sessionOpt) THEN TRUE
    ELSE IF IsNone(Val(sessionOpt).token) THEN TRUE
    ELSE IF IsNone(_seconds_until_expiry(sessionOpt, t)) THEN FALSE
    ELSE Val(_seconds_until_expiry(sessionOpt, t)) <= 0

\* C14: in remote mode a request that create_cloud_user sends through
\* _auth_headers never carries a token whose expiry has passed, and when the
\* session's token is gone or expired the call either sends the request with
\* a token renewed with the saved credentials or raises RuntimeError and
\* sends nothing; it raises RuntimeError whenever there are no saved
\* credentials.
C14_NoRequestWithExpiredToken ==
    [][ ( /\ lastCall'.op = "create_cloud_user"
          /\ now' = now
          /\ SessionMode(session) = "remote" ) =>
          /\ ~IsNone(lastCall'.request) =>
                 ~TokenExpired(Val(lastCall'.request).token, now)
          /\ SessionTokenGone(session, now) =>
                 \/ /\ lastCall'.raised = "RuntimeError"
                    /\ IsNone(lastCall'.request)
                 \/ /\ ~IsNone(credentials)
                    /\ ~IsNone(lastCall'.request)
                    /\ session' # session
                    /\ Some(Val(lastCall'.request).token) = Val(session').token ]_vars

(***************************************************************************)
(* C15.                                                                    *)
(***************************************************************************)
\* C15: at every moment hosting_ready() is false, the connections that
\* cloud_connections() returns are the mock connections (mock_only true),
\* also after update_config has switched hosting_ready off.
C15_MockOnlyWhileHostingOff ==
    ~hosting_ready(config) => connections.kind = "mock"

(***************************************************************************)
(* C16.                                                                    *)
(***************************************************************************)
\* C16: logout on a session that is not empty leaves the session empty, no
\* persisted session, is_authenticated and is_admin false and the mock
\* catalog; logout on an empty session changes nothing and emits no signal;
\* and an empty session stays empty (unauthenticated) until a login is
\* made, whether or not credentials are saved.
C16_LogoutEndsTheSession ==
    [][ /\ (lastCall'.op = "logout" /\ now' = now /\ ~IsNone(session)) =>
              /\ IsNone(session')
              /\ IsNone(persisted')
              /\ ~is_authenticated(session', now')
              /\ ~session_is_admin(session', now')
              /\ connections' = MockConnections
        /\ (lastCall'.op = "logout" /\ now' = now /\ IsNone(session)) =>
              /\ emitted' = <<>>
              /\ UNCHANGED <<session, persisted, connections, config,
                             credentials>>
        /\ (IsNone(session) /\ ~IsNone(session')) => lastCall'.op = "login"
      ]_vars

\* A logout of a remote session has returned while credentials are saved.
C16_Witness ==
    /\ lastCall.op = "logout"
    /\ IsNone(session)
    /\ ~IsNone(credentials)
    /\ hosting_ready(config)
    /\ emitted = <<"layersChanged", "sessionChanged">>

(***************************************************************************)
(* C17.                                                                    *)
(***************************************************************************)
LayersChangedCount(signals) ==
    Cardinality({i \in 1..Len(signals) : signals[i] = "layersChanged"})

\* C17: a call of reload_mock_layers made while a reload is in progress
\* returns without touching the catalog, the session or the flag and emits
\* nothing; when the outer call ends, by return or by exception, it has
\* emitted layersChanged exactly once and _is_reloading is false, so that
\* the next reload runs.
C17_ReloadNonReentrant ==
    [][ /\ (lastCall'.op = "listener_reload" /\ isReloading) =>
              UNCHANGED <<connections, session, persisted, isReloading, emitted>>
        /\ (lastCall'.op = "reload_return" /\ isReloading) =>
              /\ ~isReloading'
              /\ LayersChangedCount(emitted') = 1
        /\ (lastCall'.op = "reload_emit" /\ ~isReloading /\ now' = now) =>
              LayersChangedCount(emitted') = 1
      ]_vars

\* A listener has called reload_mock_layers during a reload that had
\* fetched the remote catalog.
C17_Witness ==
    /\ lastCall.op = "listener_reload"
    /\ isReloading
    /\ connections.kind = "remote"

(***************************************************************************)
(* C18.                                                                    *)
(***************************************************************************)
\* C18: the slots behind 'create user' and 'upload layer' send a request,
\* and the upload button opens the upload tab, only when is_admin() holds
\* for the session as it is when the slot is invoked; and is_admin() holds
\* only for a session with a token that has not expired.
C18_AdminActionsNeedAdminSession ==
    [][ /\ ( /\ lastCall'.op \in {"on_create_cloud_user_clicked",
                                  "_handle_upload_layer"}
             /\ now' = now
             /\ ~IsNone(lastCall'.request) ) =>
                 session_is_admin(session, now)
        /\ ( /\ lastCall'.op = "open_cloud_upload_tab"
             /\ now' = now
             /\ lastCall'.opened ) =>
                 session_is_admin(session, now)
        /\ session_is_admin(session, now) => ~SessionTokenGone(session, now)
      ]_vars

\* The admin's upload has been sent and stored.
C18_Witness ==
    /\ lastCall.op = "_handle_upload_layer"
    /\ ~IsNone(lastCall.request)
    /\ lastCall.status = 201

(***************************************************************************)
(* C19.                                                                    *)
(***************************************************************************)
\* The name the upload handler stores: the trimmed name of the form, else
\* the sanitized stem of the file name.
DisplayName(form) ==
    IF IsNone(form.name) THEN _sanitize_filename(form.stem)
    ELSE IF Strip(Val(form.name)) = <<>> THEN _sanitize_filename(form.stem)
    ELSE Strip(Val(form.name))

OwnsGpkgNamed(ls, name, user_id) ==
    \E row \in ls : /\ row.name = name
                    /\ row.provider = "gpkg"
                    /\ row.created_by_user_id = Some(user_id)

\* The files of the gpkg rows of ls that are on disk.
StoredFiles(ls, fs) ==
    {f \in fs : \E row \in ls :
                   /\ ~IsNone(row.uri)
                   /\ f = OsResolve(PathJoin(UPLOAD_DIR, Val(row.uri))).segs}

\* C19: no two rows of the layers table have the same name, provider and
\* creator; an upload by an admin who already owns a gpkg layer of that
\* display name is answered 400, at the first check or, when another upload
\* of the name got in between, at the insert, and leaves the table and the
\* files of the stored rows as they were.
C19_LayerKeyUnique ==
    [][ /\ \A r1, r2 \in layers' :
              ( /\ r1.name = r2.name
                /\ r1.provider = r2.provider
                /\ r1.created_by_user_id = r2.created_by_user_id ) => r1 = r2
        /\ ( /\ resp' # resp
             /\ IsFinish(resp')
             /\ OwnsGpkgNamed(layers, resp'.req.name, resp'.req.user_id) ) =>
                 /\ resp'.status = 400
                 /\ layers' = layers
                 /\ StoredFiles(layers, files) \subseteq files'
        /\ ( /\ resp' # resp
             /\ resp'.ep = "upload"
             /\ ~IsFinish(resp')
             /\ TokenIsValid(resp'.req.token, users, now)
             /\ is_admin(TokenUser(resp'.req.token, users))
             /\ OwnsGpkgNamed(layers, DisplayName(resp'.req.form),
                              TokenUser(resp'.req.token, users).id) ) =>
                 /\ resp'.status = 400
                 /\ layers' = layers
                 /\ files' = files
      ]_vars

\* The second of two concurrent uploads of one name was refused at the
\* insert, the first one's row and file in place.
C19_Witness ==
    /\ IsFinish(resp)
    /\ resp.status = 400
    /\ resp.detail = "Ja existe uma camada com este nome."
    /\ OwnsGpkgNamed(layers, resp.req.name, resp.req.user_id)
    /\ StoredFiles(layers, files) # {}

(***************************************************************************)
(* C20.                                                                    *)
(***************************************************************************)
\* A cell satisfies the filter a badge shows when its value is among the
\* values selected, the missing value standing for '(vazio)'.
SatisfiesFilter(values, v) ==
    IF isna(v) THEN NULL_SENTINEL \in values ELSE v \in values

\* C20: the rows dataframe() returns are, in order, exactly the rows of the
\* transformed dataframe whose cells satisfy every active filter, after
\* every operation, those that keep the filters included.
C20_DisplayedRowsAreTheFilteredRows ==
    /\ DOMAIN _active_filters \subseteq Columns(_transformed_df)
    /\ _filtered_df.columns = _transformed_df.columns
    /\ _filtered_df.rows =
          SelectSeq(_transformed_df.rows,
                    LAMBDA row : \A col \in DOMAIN _active_filters :
                                    SatisfiesFilter(_active_filters[col],
                                                    row.cells[col]))

(***************************************************************************)
(* C21.                                                                    *)
(***************************************************************************)
\* C21: after 'Manter apenas este valor' on a cell of the view, every row
\* the view shows holds, in that column, the value the cell showed: the
\* same value, or the missing value when the cell was empty.
C21_DrillDownKeepsOnlyTheCellsValue ==
    [][\A column \in Columns(_transformed_df), row \in 1..Len(_df.rows) :
          _drill_down(column, _show_cell_menu(row, column)) =>
              \A k \in 1..Len(_df'.rows) :
                  _df'.rows[k].cells[column] = CellShown(row, column)
      ]_vars

(***************************************************************************)
(* C22.                                                                    *)
(***************************************************************************)
\* The filters of the other columns keep the row.
KeptByOthers(column, r) ==
    \A col \in DOMAIN _active_filters \ {column} :
        Mask(_active_filters[col], r.cells[col])

\* C22: after 'Remover este valor' on a cell of the view, the rows shown
\* are, in order, the rows of the transformed dataframe that the filters of
\* the other columns keep and whose value in that column differs from the
\* value the cell showed: none of them holds that value (none is empty when
\* the cell was empty) and no other row is lost.
C22_ExcludeValueRemovesOnlyTheCellsValue ==
    [][\A column \in Columns(_transformed_df), row \in 1..Len(_df.rows) :
          _exclude_value(column, _show_cell_menu(row, column)) =>
              _df'.rows =
                  SelectSeq(_transformed_df.rows,
                            LAMBDA r : /\ r.cells[column] # CellShown(row, column)
                                       /\ KeptByOthers(column, r))
      ]_vars

(***************************************************************************)
(* C23.                                                                    *)
(***************************************************************************)
\* A row of the table matches a text typed into a box.
MatchesText(text, value) ==
    \E i \in 1..(Len(value) - Len(text) + 1) :
        Lower(SubSeq(value, i, i + Len(text) - 1)) = Lower(text)

\* C23: the rows shown are exactly the rows of the current pivot result one
\* of whose cells holds the text of the search box and whose cell under
\* each filter box holds the text now in that box; the boxes being empty
\* after the pivot is recomputed, no text typed for an earlier layout hides
\* a row.
C23_ShownRowsMatchTheFilterBoxes ==
    proxy_rows =
        {r \in 1..Len(table_model.rows) :
            /\ IF search_input = <<>> THEN TRUE
               ELSE \E c \in 1..Len(table_model.rows[r]) :
                       MatchesText(search_input, table_model.rows[r][c])
            /\ \A c \in 1..Len(column_filter_editors) :
                  IF column_filter_editors[c] = <<>> THEN TRUE
                  ELSE MatchesText(column_filter_editors[c], table_model.rows[r][c])}

====
